---- MODULE Spec2Model ----
(***************************************************************************)
(* A model of oxil, a read-only decoder of managed (.NET) executable       *)
(* images: the PE/COFF header, the CLR runtime header, the ECMA-335        *)
(* metadata root and the schema of the tables stream, followed by          *)
(* on-demand decoding of table rows.                                       *)
(*                                                                         *)
(* The byte source is a finite byte sequence with a cursor.  File offsets  *)
(* are 0-based, sequences 1-based: the byte at offset o of f is f[o + 1].  *)
(* Every 32-bit quantity of the inputs explored is below 2^31, so that it  *)
(* is an integer of the model checker.                                     *)
(***************************************************************************)
EXTENDS Integers, Sequences, FiniteSets, TLC

VARIABLES
    file,             \* the bytes of the source (never written)
    pos,              \* the cursor of the source
    overflow_checks,  \* the build: TRUE when integer overflow panics, FALSE when it wraps
    pc,               \* the position of Image::read, then "ready" or "failed"
    result,           \* the outcome of Image::read so far
    log,              \* the accesses Image::read made to the source, in order
    pe,               \* ImageHeader.coff and ImageHeader.opt, once read
    sections,         \* ImageHeader.sections, as far as pushed
    cli,              \* CliHeader, once read
    metadata_offset,  \* Image.metadata_offset
    version,          \* MetadataRoot.version (its bytes), once read
    streams,          \* the five Option<StreamHeader> slots of MetadataRoot::read
    stream_i,         \* the number of stream headers the loop has consumed
    metadata,         \* MetadataRoot's stream headers, once built
    db,               \* the schema Db, once read
    tables_offset,    \* Image.tables_offset
    last              \* the latest row()/field decode: what was asked and what came back

vars == <<file, pos, overflow_checks, pc, result, log, pe, sections, cli,
          metadata_offset, version, streams, stream_i, metadata, db,
          tables_offset, last>>

----------------------------------------------------------------------------
(* Bytes and little-endian integers *)

Zeros(n) == [k \in 1..n |-> 0]

Fill(n, b) == [k \in 1..n |-> b]

Min(a, b) == IF a < b THEN a ELSE b

Max(a, b) == IF a < b THEN b ELSE a

\* uN::from_le_bytes
RECURSIVE from_le_bytes(_)
from_le_bytes(bs) ==
    IF bs = <<>> THEN 0 ELSE Head(bs) + 256 * from_le_bytes(Tail(bs))

\* The n-byte little-endian encoding of v (v < 2^31): how the input files are written.
LE(v, n) == [k \in 1..n |-> IF k > 4 THEN 0 ELSE (v \div (256 ^ (k - 1))) % 256]

Bytes(f, p, n) == SubSeq(f, p + 1, p + n)

\* A u32 of any size is held as <<high half, low half>>, each half below 65536.
\* Wide(v) is the u32 of an integer below 2^31, Narrow(w) the integer of a u32
\* below 2^31.
Wide(v) == <<v \div 65536, v % 65536>>

Narrow(w) == w[1] * 65536 + w[2]

\* a < b on u32
wide_lt(a, b) == a[1] < b[1] \/ (a[1] = b[1] /\ a[2] < b[2])

\* a + b on u32: whether it overflows, and the wrapped sum
wide_add(a, b) ==
    LET Sum(hi, lo) == [ovf |-> hi >= 65536, val |-> <<hi % 65536, lo % 65536>>]
    IN  Sum(a[1] + b[1] + ((a[2] + b[2]) \div 65536), a[2] + b[2])

\* a - b on u32: whether it overflows, and the wrapped difference
wide_sub(a, b) ==
    LET Diff(hi, lo) ==
            [ovf |-> hi < 0, val |-> <<(hi + 65536) % 65536, (lo + 65536) % 65536>>]
    IN  Diff(a[1] - b[1] - (IF a[2] < b[2] THEN 1 ELSE 0), a[2] - b[2])

\* seq with the bytes bs written at offset off
\* std::str::from_utf8 succeeds
from_utf8_ok(bs) ==
    LET n == Len(bs)
        cont(k) == k <= n /\ bs[k] >= 128 /\ bs[k] <= 191
        \* the bytes from position k on are well-formed
        ok[k \in 1..(n + 1)] ==
            IF k > n THEN TRUE
            ELSE LET b == bs[k]
                 IN  IF b < 128 THEN ok[k + 1]
                     ELSE IF b >= 194 /\ b <= 223
                     THEN cont(k + 1) /\ ok[k + 2]
                     ELSE IF b >= 224 /\ b <= 239
                     THEN /\ cont(k + 1) /\ cont(k + 2)
                          /\ (b = 224 => bs[k + 1] >= 160)
                          /\ (b = 237 => bs[k + 1] <= 159)
                          /\ ok[k + 3]
                     ELSE IF b >= 240 /\ b <= 244
                     THEN /\ cont(k + 1) /\ cont(k + 2) /\ cont(k + 3)
                          /\ (b = 240 => bs[k + 1] >= 144)
                          /\ (b = 244 => bs[k + 1] <= 143)
                          /\ ok[k + 4]
                     ELSE FALSE
    IN  ok[1]

----------------------------------------------------------------------------
(* Outcomes *)

Running == [kind |-> "Running", reason |-> "", val |-> <<>>]
Ok == [kind |-> "Ok", reason |-> "", val |-> <<>>]
IO(why) == [kind |-> "IO", reason |-> why, val |-> <<>>]
InvalidImage(reason, val) == [kind |-> "InvalidImage", reason |-> reason, val |-> val]
Panic(why) == [kind |-> "Panic", reason |-> why, val |-> <<>>]

None == <<>>
Some(v) == <<v>>

----------------------------------------------------------------------------
(* The byte source: sequences of reads and skips *)

\* a field read with ModuleRead::u8/u16/u32/u64 (little-endian integer)
Rd(name, n) == [op |-> "read", name |-> name, n |-> n]
\* a field read as raw bytes (read_bytes / read_exact)
Rb(name, n) == [op |-> "bytes", name |-> name, n |-> n]
\* ModuleRead::skip
Sk(n) == [op |-> "skip", name |-> "", n |-> n]

NoVals == [x \in {} |-> 0]

\* The reads and skips of `script` done in order from cursor p: each read_exact
\* fails with an I/O error when fewer than n bytes remain; a seek never fails.
Run(script, f, p, vals, lg) ==
    LET N == Len(script)
        Value(s, at) == IF s.op = "read" THEN from_le_bytes(Bytes(f, at, s.n))
                        ELSE Bytes(f, at, s.n)
        \* the last of the operations `done` that reads the field nm
        Reader(done, nm) ==
            CHOOSE j \in done : /\ script[j].name = nm
                                /\ \A i \in done : script[i].name = nm => i <= j
        ValueAt(at, k) == Value(script[k], at[k])
        Got(at, done) ==
            [nm \in {script[k].name : k \in done} |-> ValueAt(at, Reader(done, nm))]
        Finish(at, stop) ==
            [ok |-> stop > N, pos |-> at[stop],
             vals |-> Got(at, {k \in 1..(stop - 1) : script[k].op # "skip"}) @@ vals,
             log |-> lg \o [k \in 1..Min(stop, N) |->
                               [op |-> script[k].op, name |-> script[k].name,
                                at |-> at[k], n |-> script[k].n]]]
        \* the first read that reaches beyond the end of the source stops the run
        Cut(at, Bad) ==
            Finish(at, IF Bad = {} THEN N + 1
                       ELSE CHOOSE k \in Bad : \A j \in Bad : k <= j)
        Scan(at) ==
            Cut(at, {k \in 1..N : /\ script[k].op # "skip"
                                 /\ script[k].n > 0
                                 /\ at[k] + script[k].n > Len(f)})
        \* the cursor before operation k
        At[k \in 1..(N + 1)] == IF k = 1 THEN p ELSE At[k - 1] + script[k - 1].n
    IN  Scan(At)

\* a seek relative to the cursor
goto_mut(p, target) == p + target

\* ModuleRead::goto, SeekFrom::Start: the cursor after the seek
goto(p, target) == target

\* ModuleRead::goto, as recorded in the log of accesses
Goto(target) == [op |-> "goto", name |-> "", at |-> target, n |-> 0]

----------------------------------------------------------------------------
(* pe.rs: the PE image header *)

PE_SIGNATURE == <<80, 69, 0, 0>>   \* b"PE\0\0"

\* ModuleRead::data_dir: two u32 reads
data_dir(name) == <<Rd(name \o ".rva", 4), Rd(name \o ".size", 4)>>

\* a fit that reads four bytes in either layout
fit_mut(name, pe64) == Rd(name, 4)

\* mod_read!(fit data to pe64)
fit(name, pe64) == Rd(name, IF pe64 THEN 8 ELSE 4)

CoffFields ==
    <<Rd("machine", 2), Rd("number_of_sections", 2), Rd("time_date_stamp", 4),
      Rd("pointer_to_symbol_table", 4), Rd("number_of_symbols", 4),
      Rd("size_of_optional_header", 2), Rd("characteristics", 2)>>

\* the fields of Optional after Magic, in the order of the struct literal
OptionalFields(pe64) ==
    <<Rd("major_linker_version", 1), Rd("minor_linker_version", 1),
      Rd("size_of_code", 4), Rd("size_of_initialized_data", 4),
      Rd("size_of_uninitialized_data", 4), Rd("address_of_entry_point", 4),
      Rd("base_of_code", 4)>>
    \o (IF pe64 THEN <<>> ELSE <<Rd("base_of_data", 4)>>)
    \o <<fit("image_base", pe64),
         Rd("section_alignment", 4), Rd("file_alignment", 4),
         Rd("major_operating_system_version", 2), Rd("minor_operating_system_version", 2),
         Rd("major_image_version", 2), Rd("minor_image_version", 2),
         Rd("major_subsystem_version", 2), Rd("minor_subsystem_version", 2), Sk(4),
         Rd("size_of_image", 4), Rd("size_of_headers", 4), Sk(4),
         Rd("subsystem", 2), Rd("dll_characteristics", 2),
         fit("size_of_stack_reserve", pe64), fit("size_of_stack_commit", pe64),
         fit("size_of_heap_reserve", pe64), fit("size_of_heap_commit", pe64), Sk(4),
         Rd("num_data_dirs", 4)>>
    \o data_dir("export") \o data_dir("import") \o data_dir("resource")
    \o data_dir("exception") \o data_dir("certificate") \o data_dir("base_relocation")
    \o data_dir("debug") \o <<Sk(8)>>
    \o data_dir("global_ptr") \o data_dir("tls") \o data_dir("load_config")
    \o data_dir("bound_import") \o data_dir("iat") \o data_dir("delay_import_descriptor")
    \o data_dir("clr_runtime_header") \o <<Sk(8)>>

MAGIC_PE32 == 267        \* 0x10B
MAGIC_PE32_PLUS == 523   \* 0x20B
DATA_DIRS == 16
SECTION_CAP == 16

\* what a stage of the parse hands back: outcome, cursor, accesses, values
Stage(res, r, vals) == [res |-> res, pos |-> r.pos, log |-> r.log, vals |-> vals]

\* The value the Magic field selects: pe64, or Err(Magic(magic))
MagicSelect(magic) ==
    IF magic = MAGIC_PE32 THEN [ok |-> TRUE, pe64 |-> FALSE]
    ELSE IF magic = MAGIC_PE32_PLUS THEN [ok |-> TRUE, pe64 |-> TRUE]
    ELSE [ok |-> FALSE, pe64 |-> FALSE]

\* a check that lets fewer than sixteen directories through
DataDirsOk_mut(n) == n <= DATA_DIRS

\* The check of NumberOfRvaAndSizes
DataDirsOk(n) == n = DATA_DIRS

\* a check that lets one section more than the cap through
SectionCountOk_mut(n) == n <= SECTION_CAP + 1

\* The check of the COFF number of sections
SectionCountOk(n) == n <= SECTION_CAP

\* ImageHeader::read up to the section loop
ImageHeaderRead(f, p0) ==
    LET Checked(d) ==
            IF ~d.ok THEN Stage(IO("UnexpectedEof"), d, NoVals)
            ELSE IF ~DataDirsOk(d.vals["num_data_dirs"])
            THEN Stage(InvalidImage("DataDirectories", <<d.vals["num_data_dirs"]>>),
                       d, NoVals)
            ELSE IF ~SectionCountOk(d.vals["number_of_sections"])
            THEN Stage(InvalidImage("SectionCount", <<d.vals["number_of_sections"]>>),
                       d, NoVals)
            ELSE Stage(Ok, d, d.vals)
        Optional(c, m) ==
            IF ~m.ok THEN Stage(InvalidImage("Magic", <<c.vals["magic"]>>), c, NoVals)
            ELSE Checked(Run(OptionalFields(m.pe64), f, c.pos, c.vals, c.log))
        Coff(c) ==
            IF ~c.ok THEN Stage(IO("UnexpectedEof"), c, NoVals)
            ELSE Optional(c, MagicSelect(c.vals["magic"]))
        Signature(b) ==
            IF ~b.ok THEN Stage(IO("UnexpectedEof"), b, NoVals)
            ELSE IF b.vals["pe_signature"] # PE_SIGNATURE
            THEN Stage(InvalidImage("PeSignature", b.vals["pe_signature"]), b, NoVals)
            ELSE Coff(Run(CoffFields \o <<Rd("magic", 2)>>, f, b.pos, NoVals, b.log))
        Pointer(a, g) ==
            IF ~a.ok THEN Stage(IO("UnexpectedEof"), a, NoVals)
            ELSE Signature(Run(<<Rb("pe_signature", 4)>>, f, g, NoVals,
                               Append(a.log, Goto(g))))
        Start(a) == Pointer(a, IF a.ok THEN a.vals["goto"] ELSE 0)
    IN  Start(Run(<<Sk(60), Rd("goto", 2)>>, f, p0, NoVals, <<>>))

SectionFields ==
    <<Rd("virtual_size", 4), Rd("virtual_addr", 4), Rd("size_of_raw_data", 4),
      Rd("pointer_to_raw_data", 4), Sk(12), Rd("characteristics", 4)>>

\* one iteration of the section loop of ImageHeader::read
SectionRead(f, p0, lg) ==
    LET Fields(b) ==
            IF ~b.ok THEN Stage(IO("UnexpectedEof"), b, NoVals) ELSE Stage(Ok, b, b.vals)
        Name(a) ==
            IF ~a.ok THEN Stage(IO("UnexpectedEof"), a, NoVals)
            ELSE IF ~from_utf8_ok(a.vals["name"]) THEN Stage(IO("InvalidData"), a, NoVals)
            ELSE Fields(Run(SectionFields, f, a.pos, a.vals, a.log))
    IN  Name(Run(<<Rb("name", 8)>>, f, p0, NoVals, lg))

\* pe::section_from: the first section, in declared order, on which the closure
\* of `find` holds. The closure adds virtual_addr and virtual_size as u32 once
\* rva >= virtual_addr: a sum beyond u32 panics with overflow checks and wraps
\* without. The sections' fields and rva are u32 held as halves.
section_from(secs, rva, checks) ==
    LET reached(k) == ~wide_lt(rva, secs[k].virtual_addr)
        end(k) == wide_add(secs[k].virtual_addr, secs[k].virtual_size)
        panics(k) == checks /\ reached(k) /\ end(k).ovf
        holds(k) == reached(k) /\ wide_lt(rva, end(k).val)
        Found(k) == IF panics(k) THEN [panic |-> TRUE, hit |-> None]
                    ELSE [panic |-> FALSE, hit |-> Some(k)]
        Stop(S) == IF S = {} THEN [panic |-> FALSE, hit |-> None]
                   ELSE Found(CHOOSE k \in S : \A j \in S : k <= j)
    IN  Stop({k \in 1..Len(secs) : panics(k) \/ holds(k)})

\* a resolver that hands an rva no section holds back as the offset
offset_from_mut(secs, rva, checks) ==
    LET Mapped(m) == IF checks /\ m.ovf THEN [panic |-> TRUE, val |-> None]
                     ELSE [panic |-> FALSE, val |-> Some(m.val)]
        Sect(r) ==
            IF r.panic THEN [panic |-> TRUE, val |-> None]
            ELSE IF r.hit = None THEN [panic |-> FALSE, val |-> Some(rva)]
            ELSE Mapped(wide_add(wide_sub(rva, secs[r.hit[1]].virtual_addr).val,
                                 secs[r.hit[1]].pointer_to_raw_data))
    IN  Sect(section_from(secs, rva, checks))

\* pe::offset_from: rva - virtual_addr + pointer_to_raw_data of that section, in
\* u32 arithmetic (the sum panics or wraps as above); None when there is none
offset_from(secs, rva, checks) ==
    LET Mapped(m) == IF checks /\ m.ovf THEN [panic |-> TRUE, val |-> None]
                     ELSE [panic |-> FALSE, val |-> Some(m.val)]
        Sect(r) ==
            IF r.panic THEN [panic |-> TRUE, val |-> None]
            ELSE IF r.hit = None THEN [panic |-> FALSE, val |-> None]
            ELSE Mapped(wide_add(wide_sub(rva, secs[r.hit[1]].virtual_addr).val,
                                 secs[r.hit[1]].pointer_to_raw_data))
    IN  Sect(section_from(secs, rva, checks))

\* the fields of a section that was read, as u32
WideSection(sc) ==
    [virtual_addr |-> Wide(sc["virtual_addr"]), virtual_size |-> Wide(sc["virtual_size"]),
     pointer_to_raw_data |-> Wide(sc["pointer_to_raw_data"])]

----------------------------------------------------------------------------
(* metadata.rs, io.rs: the CLI header and the metadata root *)

\* CliHeader::read
CliFields ==
    <<Sk(4), Rd("major_runtime_version", 2), Rd("minor_runtime_version", 2)>>
    \o data_dir("metadata")
    \o <<Rd("flags", 4), Rd("entry_point_token", 4)>>
    \o data_dir("resources")
    \o data_dir("strong_name_signature") \o <<Sk(8)>>
    \o data_dir("vtable_fixups") \o <<Sk(16)>>

METADATA_SIGNATURE == 1112167234   \* 0x424A5342, "BSJB"
VERSION_CAP == 256                 \* the buffer of ReadExt<CliVersion>::readv
STREAM_COUNT == 5
STREAM_NAME_CAP == 32
VERSION_SKIP == 8                  \* data.jump(8) after the signature

\* `&mut [0; 256][..len]` of ReadExt<CliVersion>::readv: slicing beyond the
\* buffer is a panic, nothing checks len before it
VersionSliceOk(len) == len <= VERSION_CAP

\* a check that asks for at least five streams
StreamCountOk_mut(n) == n >= STREAM_COUNT

\* The check of the stream count
StreamCountOk(n) == n = STREAM_COUNT

\* a skip of the major and minor version alone
VersionPrefix_mut == <<Sk(4), Rd("len", 4)>>

\* data.jump(8) after the signature, then the length prefix of the version
VersionPrefix == <<Sk(VERSION_SKIP), Rd("len", 4)>>

\* MetadataRoot::read up to the stream loop
MetadataRootRead(f, p0, lg) ==
    LET Count(d) ==
            IF ~d.ok THEN Stage(IO("UnexpectedEof"), d, NoVals)
            ELSE IF ~StreamCountOk(d.vals["stream_count"])
            THEN Stage(InvalidImage("StreamCount", <<d.vals["stream_count"]>>), d, d.vals)
            ELSE Stage(Ok, d, d.vals)
        Version(c) ==
            IF ~c.ok THEN Stage(IO("UnexpectedEof"), c, NoVals)
            ELSE IF ~from_utf8_ok(c.vals["version"]) THEN Stage(IO("InvalidData"), c, NoVals)
            ELSE Count(Run(<<Sk(2), Rd("stream_count", 2)>>, f, c.pos, c.vals, c.log))
        Length(b) ==
            IF ~b.ok THEN Stage(IO("UnexpectedEof"), b, NoVals)
            ELSE IF ~VersionSliceOk(b.vals["len"]) THEN Stage(Panic("slice index"), b, b.vals)
            ELSE Version(Run(<<Rb("version", b.vals["len"])>>, f, b.pos, b.vals, b.log))
        Signature(a) ==
            IF ~a.ok THEN Stage(IO("UnexpectedEof"), a, NoVals)
            ELSE IF a.vals["signature"] # METADATA_SIGNATURE
            THEN Stage(InvalidImage("MetadataSignature", <<a.vals["signature"]>>), a, NoVals)
            ELSE Length(Run(VersionPrefix, f, a.pos, a.vals, a.log))
    IN  Signature(Run(<<Rd("signature", 4)>>, f, p0, NoVals, lg))

\* ReadExt<StreamName>::readv: 4-byte chunks until 32 bytes are held or a chunk
\* holds a NUL; then the UTF-8 check
RECURSIVE stream_name(_, _, _, _)
stream_name(f, p, strbuf, lg) ==
    LET Chunk(a, sb) ==
            IF ~a.ok THEN Stage(IO("UnexpectedEof"), a, <<>>)
            ELSE IF Len(sb) > STREAM_NAME_CAP
            THEN Stage(Panic("try_extend_from_slice"), a, <<>>)
            ELSE IF Len(sb) = STREAM_NAME_CAP \/ \E k \in 1..4 : sb[Len(sb) - 4 + k] = 0
            THEN IF from_utf8_ok(sb) THEN Stage(Ok, a, sb)
                 ELSE Stage(IO("InvalidData"), a, <<>>)
            ELSE stream_name(f, a.pos, sb, a.log)
        Buf(a) == Chunk(a, IF a.ok THEN strbuf \o a.vals["name"] ELSE strbuf)
    IN  Buf(Run(<<Rb("name", 4)>>, f, p, NoVals, lg))

\* the five names MetadataRoot::read accepts, as bytes
NAME_STRINGS == <<35, 83, 116, 114, 105, 110, 103, 115, 0, 0, 0, 0>>   \* "#Strings\0\0\0\0"
NAME_US == <<35, 85, 83, 0>>                                           \* "#US\0"
NAME_BLOB == <<35, 66, 108, 111, 98, 0, 0, 0>>                         \* "#Blob\0\0\0"
NAME_GUID == <<35, 71, 85, 73, 68, 0, 0, 0>>                           \* "#GUID\0\0\0"
NAME_TABLES == <<35, 126, 0, 0>>                                       \* "#~\0\0"

Roles == {"s", "u", "b", "g", "t"}

\* a match whose last arm takes every other name for the tables stream
StreamRole_mut(name) ==
    IF name = NAME_STRINGS THEN Some("s")
    ELSE IF name = NAME_US THEN Some("u")
    ELSE IF name = NAME_BLOB THEN Some("b")
    ELSE IF name = NAME_GUID THEN Some("g")
    ELSE Some("t")

\* the match on the stream name: the slot it selects, or None
StreamRole(name) ==
    IF name = NAME_STRINGS THEN Some("s")
    ELSE IF name = NAME_US THEN Some("u")
    ELSE IF name = NAME_BLOB THEN Some("b")
    ELSE IF name = NAME_GUID THEN Some("g")
    ELSE IF name = NAME_TABLES THEN Some("t")
    ELSE None

\* a store that passes over a header whose slot is taken
StreamStore_keep(slots, role, hdr) ==
    IF slots[role] # None THEN Some(slots)
    ELSE Some([slots EXCEPT ![role] = Some(hdr)])

\* a store without the check for a taken slot
StreamStore_mut(slots, role, hdr) == Some([slots EXCEPT ![role] = Some(hdr)])

\* the slots after a header named for `role` was read: None when the slot is taken
StreamStore(slots, role, hdr) ==
    IF slots[role] # None THEN None
    ELSE Some([slots EXCEPT ![role] = Some(hdr)])

\* one iteration of the stream loop of MetadataRoot::read
StreamHeaderRead(f, p0, lg, slots) ==
    LET Store(n, st) ==
            IF st = None THEN Stage(InvalidImage("StreamDuplicate", n.vals), n, slots)
            ELSE Stage(Ok, n, st[1])
        Match(a, n, role) ==
            IF role = None THEN Stage(InvalidImage("StreamName", n.vals), n, slots)
            ELSE Store(n, StreamStore(slots, role[1],
                          [offset |-> a.vals["offset"], size |-> a.vals["size"]]))
        Name(a, n) ==
            IF n.res # Ok THEN Stage(n.res, n, slots)
            ELSE Match(a, n, StreamRole(n.vals))
        Header(a) ==
            IF ~a.ok THEN Stage(IO("UnexpectedEof"), a, slots)
            ELSE Name(a, stream_name(f, a.pos, <<>>, a.log))
    IN  Header(Run(<<Rd("offset", 4), Rd("size", 4)>>, f, p0, NoVals, lg))

----------------------------------------------------------------------------
(* schema: the tables-stream header and the field framework *)

TABLE_COUNT == 45   \* 0x2D

\* schema/parsing.rs: enum TableIndex
TableIndex ==
    [Module |-> 0, TypeRef |-> 1, TypeDef |-> 2, FieldPtr |-> 3, Field |-> 4,
     MethodPtr |-> 5, Method |-> 6, ParamPtr |-> 7, Param |-> 8, InterfaceImpl |-> 9,
     MemberRef |-> 10, Constant |-> 11, CustomAttribute |-> 12, FieldMarshal |-> 13,
     DeclSecurity |-> 14, ClassLayout |-> 15, FieldLayout |-> 16, StandAloneSig |-> 17,
     EventMap |-> 18, EventPtr |-> 19, Event |-> 20, PropertyMap |-> 21,
     PropertyPtr |-> 22, Property |-> 23, MethodSemantics |-> 24, MethodImpl |-> 25,
     ModuleRef |-> 26, TypeSpec |-> 27, ImplMap |-> 28, FieldRva |-> 29, EncLog |-> 30,
     EncMap |-> 31, Assembly |-> 32, AssemblyProcessor |-> 33, AssemblyOs |-> 34,
     AssemblyRef |-> 35, AssemblyRefProcessor |-> 36, AssemblyRefOs |-> 37, File |-> 38,
     ExportedType |-> 39, ManifestResource |-> 40, NestedClass |-> 41,
     GenericParam |-> 42, MethodSpec |-> 43, GenericParamConstraint |-> 44]

\* x & bit != 0, for bit a power of two
HasBit(x, bit) == (x \div bit) % 2 = 1

\* (valid >> i) & 1 != 0, on the eight little-endian bytes of valid
ValidBit(v, i) == HasBit(v[(i \div 8) + 1], 2 ^ (i % 8))

\* a check that starts one bit too high
ValidTooHigh_mut(v) == \E i \in (TABLE_COUNT + 1)..63 : ValidBit(v, i)

\* valid >> TABLE_COUNT != 0
ValidTooHigh(v) == \E i \in TABLE_COUNT..63 : ValidBit(v, i)

\* u32 arithmetic on 16-bit halves: whether it overflows, and the wrapped value
mul_u32(a, b) ==
    LET lo == (a % 65536) * b
        hi == (a \div 65536) * b + (lo \div 65536)
    IN  [ovf |-> hi >= 65536, val |-> (hi % 65536) * 65536 + (lo % 65536)]

add_u32(a, b) ==
    LET lo == (a % 65536) + (b % 65536)
        hi == (a \div 65536) + (b \div 65536) + (lo \div 65536)
    IN  [ovf |-> hi >= 65536, val |-> (hi % 65536) * 65536 + (lo % 65536)]

\* The field types of schema/structures.rs and schema/mod.rs
U8 == [kind |-> "prim", n |-> 1]
U16 == [kind |-> "prim", n |-> 2]
U32 == [kind |-> "prim", n |-> 4]
U64 == [kind |-> "prim", n |-> 8]
AssemblyFlags == [kind |-> "flags", n |-> 4]
AssemblyHashAlgorithm == [kind |-> "enum", n |-> 4]
StringIndex == [kind |-> "stream", bit |-> 1]
\* a GUID index governed by the bit of the blob heap
GuidIndex_mut == [kind |-> "stream", bit |-> 4]

GuidIndex == [kind |-> "stream", bit |-> 2]
BlobIndex == [kind |-> "stream", bit |-> 4]
RowIndex(table) == [kind |-> "row", table |-> table]
TypeDefOrRef ==
    [kind |-> "coded", bits |-> 2,
     tables |-> <<TableIndex.TypeDef, TableIndex.TypeRef, TableIndex.TypeSpec>>]
HasConstant ==
    [kind |-> "coded", bits |-> 2,
     tables |-> <<TableIndex.Field, TableIndex.Param, TableIndex.Property>>]
ResolutionScope ==
    [kind |-> "coded", bits |-> 2,
     tables |-> <<TableIndex.Module, TableIndex.ModuleRef, TableIndex.AssemblyRef,
                  TableIndex.TypeRef>>]

\* 0.max(rows[a]).max(rows[b])...
RECURSIVE max_rows(_, _)
max_rows(tables, rows) ==
    IF tables = <<>> THEN 0 ELSE Max(rows[Head(tables)], max_rows(Tail(tables), rows))

\* db.lstreams & bit != 0 in db_read_stream!'s size
StreamWide(m, bit) == HasBit(m.lstreams, bit)

\* db.rows[TABLE] > u16::MAX in RowIndex's size
RowWide(m, table) == m.rows[table] > 65535

\* a threshold that already widens the index at 2^(16 - bits) rows
CodedWide_mut(m, ft) == max_rows(ft.tables, m.rows) >= 2 ^ (16 - ft.bits)

\* max_rows > 2u32.pow(16 - bits) in coded_indices!'s size
CodedWide(m, ft) == max_rows(ft.tables, m.rows) > 2 ^ (16 - ft.bits)

\* DbRead::size
size(ft, m) ==
    CASE ft.kind \in {"prim", "flags", "enum"} -> ft.n
      [] ft.kind = "stream" -> IF StreamWide(m, ft.bit) THEN 4 ELSE 2
      [] ft.kind = "row" -> IF RowWide(m, ft.table) THEN 4 ELSE 2
      [] ft.kind = "coded" -> IF CodedWide(m, ft) THEN 4 ELSE 2

\* a read whose row-index threshold is off by one
ReadWidth_mut(ft, m) ==
    CASE ft.kind \in {"prim", "flags", "enum"} -> ft.n
      [] ft.kind = "stream" -> IF HasBit(m.lstreams, ft.bit) THEN 4 ELSE 2
      [] ft.kind = "row" -> IF m.rows[ft.table] >= 65535 THEN 4 ELSE 2
      [] ft.kind = "coded" -> IF size(ft, m) = 4 THEN 4 ELSE 2

\* the number of bytes DbRead::read asks the source for
ReadWidth(ft, m) ==
    CASE ft.kind \in {"prim", "flags", "enum"} -> ft.n
      [] ft.kind = "stream" -> IF HasBit(m.lstreams, ft.bit) THEN 4 ELSE 2
      [] ft.kind = "row" -> IF m.rows[ft.table] > 65535 THEN 4 ELSE 2
      [] ft.kind = "coded" -> IF size(ft, m) = 4 THEN 4 ELSE 2

\* AssemblyFlags::from_bits succeeds: no bit outside the four declared
FLAG_BITS == {0, 8, 14, 15}   \* 0x1, 0x100, 0x4000, 0x8000
from_bits_ok(bits) == \A k \in 0..30 : HasBit(bits, 2 ^ k) => k \in FLAG_BITS

\* AssemblyHashAlgorithm::try_from succeeds
HASH_ALGORITHMS == {0, 32771, 32772}   \* None, MD5 0x8003, SHA1 0x8004

\* a conversion that takes a tag beyond the candidates for the first of them
IndexType_mut(tables, tag) ==
    IF tag >= Len(tables) THEN Some(tables[1]) ELSE Some(tables[tag + 1])

\* coded_indices!: the tag converted to the local enum IndexType, whose variants
\* are the candidates in order, then matched to its table; None when the tag is
\* no variant
IndexType(tables, tag) ==
    IF tag >= Len(tables) THEN None ELSE Some(tables[tag + 1])

\* DbRead::read: the value decoded at cursor p, or the error
read(ft, m, f, p, lg, name) ==
    LET Matched(a, int, tag, table) ==
            IF table = None THEN Stage(InvalidImage("CodedIndex", <<tag>>), a, 0)
            ELSE Stage(Ok, a, <<table[1], int \div (2 ^ ft.bits)>>)
        Coded(a, int, tag) == Matched(a, int, tag, IndexType(ft.tables, tag))
        Decode(a, int) ==
            CASE ft.kind = "flags" ->
                   IF from_bits_ok(int) THEN Stage(Ok, a, int)
                   ELSE Stage(IO("InvalidData"), a, 0)
              [] ft.kind = "enum" ->
                   IF int \in HASH_ALGORITHMS THEN Stage(Ok, a, int)
                   ELSE Stage(IO("Other"), a, 0)
              [] ft.kind = "coded" -> Coded(a, int, int % (2 ^ ft.bits))
              [] OTHER -> Stage(Ok, a, int)
        Raw(a) ==
            IF ~a.ok THEN Stage(IO("UnexpectedEof"), a, 0) ELSE Decode(a, a.vals[name])
    IN  Raw(Run(<<Rd(name, ReadWidth(ft, m))>>, f, p, NoVals, lg))

Fd(name, type) == [name |-> name, type |-> type]

\* schema/table.rs: tables!
Table ==
    [Module |->
        [INDEX |-> TableIndex.Module,
         fields |-> <<Fd("generation", U16), Fd("name", StringIndex), Fd("mvid", GuidIndex),
                      Fd("enc_id", GuidIndex), Fd("enc_base_id", GuidIndex)>>],
     TypeRef |->
        [INDEX |-> TableIndex.TypeRef,
         fields |-> <<Fd("resolution_scope", ResolutionScope),
                      Fd("type_name", StringIndex), Fd("type_namespace", StringIndex)>>],
     Assembly |->
        [INDEX |-> TableIndex.Assembly,
         fields |-> <<Fd("hash_alg_id", AssemblyHashAlgorithm), Fd("major_version", U16),
                      Fd("minor_version", U16), Fd("build_number", U16),
                      Fd("revision_number", U16), Fd("flags", AssemblyFlags),
                      Fd("public_key", BlobIndex), Fd("name", StringIndex),
                      Fd("culture", StringIndex)>>],
     AssemblyOs |->
        [INDEX |-> TableIndex.AssemblyOs,
         fields |-> <<Fd("os_platform_id", U32), Fd("os_major_version", U32),
                      Fd("os_minor_version", U32)>>],
     AssemblyProcessor |->
        [INDEX |-> TableIndex.AssemblyProcessor,
         fields |-> <<Fd("processor", U32)>>]]

TableTypes == DOMAIN Table

\* Table::row_size: the sum of the fields' sizes
RECURSIVE SumSizes(_, _)
SumSizes(fields, m) ==
    IF fields = <<>> THEN 0 ELSE size(Head(fields).type, m) + SumSizes(Tail(fields), m)

row_size(t, m) == SumSizes(Table[t].fields, m)

\* Table::row: each field read in declared order, the first error returned
RECURSIVE ReadFields(_, _, _, _, _, _)
ReadFields(fields, m, f, p, lg, got) ==
    LET Field(fd, r) ==
            IF r.res # Ok THEN [res |-> r.res, pos |-> r.pos, log |-> r.log, vals |-> NoVals]
            ELSE ReadFields(Tail(fields), m, f, r.pos, r.log, (fd.name :> r.vals) @@ got)
        First(fd) == Field(fd, read(fd.type, m, f, p, lg, fd.name))
    IN  IF fields = <<>> THEN [res |-> Ok, pos |-> p, log |-> lg, vals |-> got]
        ELSE First(Head(fields))

\* a decode that leaves out the first field of the row
row_mut(t, m, f, p, lg) == ReadFields(Tail(Table[t].fields), m, f, p, lg, NoVals)

row(t, m, f, p, lg) == ReadFields(Table[t].fields, m, f, p, lg, NoVals)

\* the tables get_sizes! is applied to in Db::read, in order
SizedTables == <<"Module", "TypeRef">>

\* get_sizes!: row_size[i] and offsets[i + 1] for the i-th table listed; with
\* overflow checks an overflowing u32 product or sum panics, without it wraps
RECURSIVE get_sizes(_, _, _, _, _, _)
get_sizes(tables, i, rs, offs, m, checks) ==
    LET Offset(rs2, prod, sum) ==
            IF i + 1 < TABLE_COUNT
            THEN IF checks /\ (prod.ovf \/ sum.ovf)
                 THEN [panic |-> TRUE, row_size |-> rs2, offsets |-> offs]
                 ELSE get_sizes(Tail(tables), i + 1, rs2,
                                [offs EXCEPT ![i + 1] = sum.val], m, checks)
            ELSE get_sizes(Tail(tables), i + 1, rs2, offs, m, checks)
        Product(rs2, prod) == Offset(rs2, prod, add_u32(offs[i], prod.val))
        Size(sz) == Product([rs EXCEPT ![i] = sz], mul_u32(m.rows[i], sz))
    IN  IF tables = <<>> THEN [panic |-> FALSE, row_size |-> rs, offsets |-> offs]
        ELSE Size(row_size(Head(tables), m))

TableIds == 0..(TABLE_COUNT - 1)

\* row counts read for the set bits of valid from the highest table id down
RowCountFields_mut(v) ==
    LET ids == SelectSeq([k \in 1..TABLE_COUNT |-> TABLE_COUNT - k],
                         LAMBDA i : ValidBit(v, i))
    IN  [k \in 1..Len(ids) |-> Rd(ToString(ids[k]), 4)]

\* the u32 row counts Db::read reads: one per set bit of valid, ascending
RowCountFields(v) ==
    LET ids == SelectSeq([k \in 1..TABLE_COUNT |-> k - 1], LAMBDA i : ValidBit(v, i))
    IN  [k \in 1..Len(ids) |-> Rd(ToString(ids[k]), 4)]

NoDb == [lstreams |-> 0, row_count |-> <<>>, row_size |-> <<>>, offsets |-> <<>>]

\* Db::read
DbRead(f, p0, lg, checks) ==
    LET Sized(b, m, g) ==
            IF g.panic THEN Stage(Panic("overflow"), b, NoDb)
            ELSE Stage(Ok, b, [lstreams |-> m.lstreams, row_count |-> m.rows,
                               row_size |-> g.row_size, offsets |-> g.offsets])
        Meta(b, m) ==
            Sized(b, m, get_sizes(SizedTables, 0, [i \in TableIds |-> 0],
                                  [i \in TableIds |-> 0], m, checks))
        Counts(a, b) ==
            IF ~b.ok THEN Stage(IO("UnexpectedEof"), b, NoDb)
            ELSE Meta(b, [lstreams |-> a.vals["lstreams"],
                          rows |-> [i \in TableIds |->
                                       IF ValidBit(a.vals["valid"], i)
                                       THEN b.vals[ToString(i)] ELSE 0]])
        Header(a) ==
            IF ~a.ok THEN Stage(IO("UnexpectedEof"), a, NoDb)
            ELSE IF ValidTooHigh(a.vals["valid"])
            THEN Stage(InvalidImage("TableCount", a.vals["valid"]), a, NoDb)
            ELSE Counts(a, Run(<<Sk(8)>> \o RowCountFields(a.vals["valid"]), f, a.pos,
                               NoVals, a.log))
    IN  Header(Run(<<Sk(6), Rd("lstreams", 1), Sk(1), Rb("valid", 8)>>, f, p0, NoVals, lg))

\* Db::meta
meta(d) == [lstreams |-> d.lstreams, rows |-> d.row_count]

\* a bounds check that lets the row one past the last through
NoSuchRow_mut(d, index, row_index) == row_index > d.row_count[index]

\* the bounds check of Db::row
NoSuchRow(d, index, row_index) == row_index >= d.row_count[index]

\* an early return that has rewound the source first
NoRow_mut(p) == [res |-> Ok, pos |-> 0, log |-> <<>>, value |-> None]

\* the early return of Db::row: Ok(None), the source not touched
NoRow(p) == [res |-> Ok, pos |-> p, log |-> <<>>, value |-> None]

\* Db::row: Ok(None), Ok(Some(row)) or the error, with the cursor and the accesses
DbRow(d, t, f, p, table_stream_offset, row_index, checks) ==
    LET Decoded(r) ==
            [res |-> r.res, pos |-> r.pos, log |-> r.log,
             value |-> IF r.res = Ok THEN Some(r.vals) ELSE None]
        Seek(target) == Decoded(row(t, meta(d), f, goto(p, target), <<Goto(target)>>))
        Locate(ix, row_offset) ==
            IF checks /\ row_offset.ovf
            THEN [res |-> Panic("overflow"), pos |-> p, log |-> <<>>, value |-> None]
            ELSE Seek(table_stream_offset + d.offsets[ix] + row_offset.val)
        Check(ix) ==
            IF NoSuchRow(d, ix, row_index)
            THEN NoRow(p)
            ELSE Locate(ix, mul_u32(row_index, d.row_size[ix]))
    IN  Check(Table[t].INDEX)

----------------------------------------------------------------------------
(* The input images: written from the PE/COFF and ECMA-335 layouts, field by   *)
(* field at the offsets those formats give, independently of the decoder above *)

RECURSIVE Flatten(_)
Flatten(ss) == IF ss = <<>> THEN <<>> ELSE Head(ss) \o Flatten(Tail(ss))

\* PE format: the size of the optional header, and where its directories start
OptLen(magic) == IF magic = MAGIC_PE32_PLUS THEN 240 ELSE 224
DirsOff(magic) == IF magic = MAGIC_PE32_PLUS THEN 112 ELSE 96

\* the value written into data directory k (0-based) other than the CLR one
DirRva(k) == 4096 + k
DirSize(k) == k + 1
CLR_DIR == 14

CoffBytes(inp) ==
    LE(332, 2) \o LE(inp.nsect, 2) \o LE(1000, 4) \o Zeros(8)
    \o LE(OptLen(inp.magic), 2) \o LE(34, 2)

OptBytes(inp) ==
    LET wide == inp.magic = MAGIC_PE32_PLUS
        w == IF wide THEN 8 ELSE 4
        dirs == Flatten([k \in 1..16 |->
                    IF k - 1 = CLR_DIR THEN LE(inp.clr_rva, 4) \o LE(72, 4)
                    ELSE LE(DirRva(k - 1), 4) \o LE(DirSize(k - 1), 4)])
        std == LE(inp.magic, 2) \o <<48, 0>> \o LE(2048, 4) \o LE(2048, 4) \o LE(0, 4)
               \o LE(9810, 4) \o LE(8192, 4)
               \o (IF wide THEN <<>> ELSE LE(16384, 4))
               \o LE(4194304, w)
        win == LE(8192, 4) \o LE(512, 4) \o LE(4, 2) \o LE(0, 2) \o LE(0, 2) \o LE(0, 2)
               \o LE(4, 2) \o LE(0, 2) \o LE(0, 4) \o LE(32768, 4) \o LE(512, 4)
               \o LE(0, 4) \o LE(3, 2) \o LE(1376, 2)
               \o LE(1048576, w) \o LE(4096, w) \o LE(1048577, w) \o LE(4097, w)
               \o LE(0, 4) \o LE(inp.ndirs, 4)
    IN  std \o win \o dirs

SectionBytes(sc, raw) ==
    <<46, 116, 101, 120, 116, 0, 0, 0>> \o LE(sc.vsize, 4) \o LE(sc.va, 4)
    \o LE(2048, 4) \o LE(raw + sc.rel, 4) \o Zeros(12) \o LE(1610612768, 4)

\* the file offset at which the first section's raw data is written
RawOff(inp) == inp.peptr + 24 + OptLen(inp.magic) + 40 * Len(inp.sects)

CliBytes(inp) ==
    LE(72, 4) \o LE(2, 2) \o LE(5, 2) \o LE(inp.md_rva, 4) \o LE(1000, 4)
    \o LE(1, 4) \o LE(100663297, 4) \o Zeros(48)

\* the version bytes physically present
VerPresent(inp) == Min(inp.verlen, 300)

StreamHdrLen(names) == Len(Flatten(names)) + 8 * Len(names)

\* the length of the metadata root, where the tables stream is written
MdLen(inp) == 16 + VerPresent(inp) + 4 + StreamHdrLen(inp.names)

\* the (offset, size) written with the k-th stream header
HdrOffset(inp, k) == IF inp.names[k] = NAME_TABLES THEN MdLen(inp) ELSE 4096 + k
HdrSize(k) == 16 + k

MdBytes(inp) ==
    LE(inp.md_sig, 4) \o LE(1, 2) \o LE(1, 2) \o Zeros(4) \o LE(inp.verlen, 4)
    \o Fill(VerPresent(inp), inp.verbyte) \o Zeros(2) \o LE(inp.count, 2)
    \o Flatten([k \in 1..Len(inp.names) |->
                   LE(HdrOffset(inp, k), 4) \o LE(HdrSize(k), 4) \o inp.names[k]])

RECURSIVE SumBits(_, _)
SumBits(S, base) ==
    IF S = {} THEN 0
    ELSE LET b == CHOOSE x \in S : TRUE
         IN  (IF b >= base /\ b < base + 8 THEN 2 ^ (b - base) ELSE 0)
             + SumBits(S \ {b}, base)

\* the bits a Valid mask can hold
ValidIds == 0..63

ValidBytes(S) == [j \in 1..8 |-> SumBits(S, 8 * (j - 1))]

\* the ids of S in ascending order
RECURSIVE Ascending(_)
Ascending(S) ==
    IF S = {} THEN <<>>
    ELSE LET lo == CHOOSE x \in S : \A y \in S : x <= y
         IN  <<lo>> \o Ascending(S \ {lo})

TablesBytes(inp) ==
    Zeros(4) \o <<2, 0>> \o <<inp.heap>> \o <<1>> \o ValidBytes(inp.valid) \o Zeros(8)
    \o Flatten([k \in 1..Cardinality(inp.valid) |->
                   LE(inp.rows[Ascending(inp.valid)[k]], 4)])
    \o inp.rowdata

FullFile(inp) ==
    Fill(60, 144) \o LE(inp.peptr, 2) \o LE(inp.ptr_hi, 2) \o Zeros(inp.peptr - 64)
    \o inp.sig \o CoffBytes(inp) \o OptBytes(inp)
    \o Flatten([k \in 1..Len(inp.sects) |-> SectionBytes(inp.sects[k], RawOff(inp))])
    \o Zeros(8) \o CliBytes(inp) \o MdBytes(inp) \o TablesBytes(inp)

\* the image of inp, cut to its first inp.keep bytes when inp.keep > 0
File(inp) ==
    LET full == FullFile(inp)
    IN  IF inp.keep = 0 THEN full ELSE SubSeq(full, 1, Min(inp.keep, Len(full)))

----------------------------------------------------------------------------
(* The inputs explored *)

MaxRowIndex == 2    \* row() is asked for rows 0..MaxRowIndex and around 65535
RowDataLen == 40    \* the bytes of row data written after the schema
MaxReplaced == 2    \* how many of the five stream names are replaced at once

RowData == [k \in 1..RowDataLen |-> IF k <= 16 THEN 0 ELSE (k * 37) % 128]

BaseSection == [va |-> 8192, vsize |-> 4096, rel |-> 0]

BaseNames == <<NAME_TABLES, NAME_STRINGS, NAME_US, NAME_GUID, NAME_BLOB>>

Base ==
    [peptr |-> 64, ptr_hi |-> 0, sig |-> PE_SIGNATURE, nsect |-> 1, sects |-> <<BaseSection>>,
     magic |-> MAGIC_PE32, ndirs |-> DATA_DIRS, clr_rva |-> 8200, md_rva |-> 8272,
     md_sig |-> METADATA_SIGNATURE, verlen |-> 12, verbyte |-> 118,
     count |-> STREAM_COUNT, names |-> BaseNames, heap |-> 0, valid |-> {0, 1},
     rows |-> [i \in ValidIds |-> IF i = 0 THEN 1 ELSE 2], rowdata |-> RowData,
     keep |-> 0]

MagicChoices == {MAGIC_PE32, MAGIC_PE32_PLUS, 0, 268, 779}
DirCountChoices == {DATA_DIRS, 0, 15, 17}

\* where a header is cut: nowhere, right after NumberOfRvaAndSizes, inside the
\* directories, right after them
HeaderCut(magic, kind) ==
    CASE kind = 0 -> 0
      [] kind = 1 -> 64 + 24 + DirsOff(magic)
      [] kind = 2 -> 64 + 24 + DirsOff(magic) + 60
      [] kind = 3 -> 64 + 24 + OptLen(magic)

TwoSections == <<BaseSection, [va |-> 16384, vsize |-> 4096, rel |-> 4096]>>

\* n sections laid one after the other, each with its own address range
SectionList(n) == [k \in 1..n |-> [va |-> 8192 * k, vsize |-> 4096, rel |-> 4096 * (k - 1)]]

HeaderInputs ==
    {[Base EXCEPT !.magic = x[1], !.ndirs = x[2], !.keep = HeaderCut(x[1], x[3])] :
        x \in MagicChoices \X DirCountChoices \X (0..3)}
    \cup {[Base EXCEPT !.sig = <<80, 69, 0, 1>>], [Base EXCEPT !.keep = 40],
          [Base EXCEPT !.nsect = 0, !.sects = <<>>],
          [Base EXCEPT !.nsect = 17, !.sects = <<>>],
          [Base EXCEPT !.nsect = 2, !.sects = TwoSections],
          [Base EXCEPT !.nsect = 2, !.sects = TwoSections, !.magic = MAGIC_PE32_PLUS],
          [Base EXCEPT !.nsect = 2],
          [Base EXCEPT !.nsect = SECTION_CAP, !.sects = SectionList(SECTION_CAP)],
          [Base EXCEPT !.nsect = SECTION_CAP + 1, !.sects = SectionList(SECTION_CAP + 1)],
          [Base EXCEPT !.nsect = 65535],
          [Base EXCEPT !.md_rva = 4096], [Base EXCEPT !.md_rva = 12288],
          [Base EXCEPT !.clr_rva = 4096], [Base EXCEPT !.clr_rva = 8191],
          [Base EXCEPT !.clr_rva = 12288],
          [Base EXCEPT !.peptr = 128], [Base EXCEPT !.peptr = 4096, !.keep = 4000],
          [Base EXCEPT !.ptr_hi = 1], [Base EXCEPT !.ptr_hi = 32767, !.peptr = 128]}

VersionLenChoices == {0, 1, 12, 255, 256, 257, 300}
StreamCountChoices == {STREAM_COUNT, 0, 4, 6, 65535}

MetadataInputs ==
    {[Base EXCEPT !.verlen = x[1], !.count = x[2], !.verbyte = x[3]] :
        x \in VersionLenChoices \X StreamCountChoices \X {118, 255}}
    \cup {[Base EXCEPT !.md_sig = 1112167235]}
    \cup {[Base EXCEPT !.keep = RawOff(Base) + 80 + k] : k \in {2, 10, 20, 30, 40, 60}}
    \cup {[Base EXCEPT !.count = 6, !.names = BaseNames \o <<NAME_BLOB>>]}

\* names beside the five accepted ones: an accepted name with one more letter
\* ("#USA"), a NUL followed by a letter ("#~\0x"), 32 bytes without a NUL, and
\* bytes that are not UTF-8
OtherNames ==
    {<<35, 85, 83, 65, 0, 0, 0, 0>>, <<35, 126, 0, 120>>, Fill(32, 65), <<255, 0, 0, 0>>}

NameChoices == {NAME_STRINGS, NAME_US, NAME_BLOB, NAME_GUID, NAME_TABLES} \cup OtherNames

\* BaseNames with the names at the positions of P replaced by those of r
Replaced(P, r) == [k \in 1..STREAM_COUNT |-> IF k \in P THEN r[k] ELSE BaseNames[k]]

\* MaxReplaced neighbouring names replaced, in every way
NameInputs ==
    UNION {{[Base EXCEPT !.names = Replaced(P, r)] : r \in [P -> NameChoices]} :
              P \in {k..(k + MaxReplaced - 1) : k \in 1..(STREAM_COUNT - MaxReplaced + 1)}}

\* where the tables stream of Base starts in its file
BaseTables == RawOff(Base) + 80 + MdLen(Base)

HeapChoices == 0..7
ValidChoices == {{}, {0}, {1}, {0, 1, 32}, {0, 1, 32, 33, 34}, {0, 44}, {0, 45}, {63}}

\* row counts around the widths' thresholds
RowCountChoices == {0, 1, 16384, 16385, 65535, 65536}

\* row counts whose product with the row size passes 2^32: 10 * ManyModules,
\* 8 * ManyTypeRefs
ManyModules == 429496730
ManyTypeRefs == 715827883

Rows(a, b) == [i \in ValidIds |-> IF i = 0 THEN a ELSE IF i = 1 THEN b ELSE 3]

\* row data whose Assembly row holds an undeclared hash algorithm or flag bit
BadEnumData == [RowData EXCEPT ![1] = 1]
BadFlagsData == [RowData EXCEPT ![13] = 2]

SchemaInputs ==
    {[Base EXCEPT !.heap = h, !.valid = {0, 1, 32, 33, 34}] : h \in HeapChoices}
    \cup {[Base EXCEPT !.valid = v, !.rows = Rows(1, 2)] : v \in ValidChoices}
    \cup {[Base EXCEPT !.rows = Rows(x[1], x[2]), !.heap = x[3]] :
              x \in RowCountChoices \X {2, 16385} \X {0, 7}}
    \cup {[Base EXCEPT !.rows = Rows(ManyModules, 2)],
          [Base EXCEPT !.rows = Rows(1, ManyTypeRefs)]}
    \cup {[Base EXCEPT !.valid = {0, 1, 32}, !.rowdata = d] : d \in {BadEnumData, BadFlagsData}}
    \cup {[Base EXCEPT !.keep = BaseTables + k] : k \in {3, 7, 12, 20, 26, 30, 32, 36, 45}}

Inputs == HeaderInputs \cup MetadataInputs \cup NameInputs \cup SchemaInputs

\* where the cursor of the source stands when it is handed to the reader
StartChoices == {0, 4}

NoCall == [table |-> "", row_index |-> 0, res |-> Running, value |-> None,
           log |-> <<>>, from |-> 0]

Init ==
    /\ \E inp \in Inputs : file = File(inp)
    /\ pos \in StartChoices
    /\ overflow_checks \in BOOLEAN
    /\ pc = "start"
    /\ result = Running
    /\ log = <<>>
    /\ pe = NoVals
    /\ sections = <<>>
    /\ cli = NoVals
    /\ metadata_offset = 0
    /\ version = <<>>
    /\ streams = [r \in Roles |-> None]
    /\ stream_i = 0
    /\ metadata = NoVals
    /\ db = NoDb
    /\ tables_offset = 0
    /\ last = NoCall

----------------------------------------------------------------------------
(* Image::read, step by step *)

\* where a failed read_exact leaves the cursor: where the read began, or at the
\* end of the source (both are implementations of the byte source)
CursorAfter(res, p) ==
    IF res.kind = "IO" /\ res.reason = "UnexpectedEof" THEN {p, Len(file)} ELSE {p}

\* the `?` of Image::read: the error is returned and nothing later runs
Failed(res, p, lg) ==
    /\ pc' = "failed"
    /\ result' = res
    /\ pos' \in CursorAfter(res, p)
    /\ log' = lg

\* ImageHeader::read up to its section loop
ReadImageHeader ==
    /\ pc = "start"
    /\ \E st \in {ImageHeaderRead(file, pos)} :
           IF st.res = Ok
           THEN /\ pe' = st.vals
                /\ pos' = st.pos
                /\ log' = st.log
                /\ pc' = IF st.vals["number_of_sections"] = 0 THEN "cli" ELSE "sections"
                /\ UNCHANGED result
           ELSE Failed(st.res, st.pos, st.log) /\ UNCHANGED pe
    /\ UNCHANGED <<file, overflow_checks, sections, cli, metadata_offset, version,
                   streams, stream_i, metadata, db, tables_offset, last>>

\* one iteration of the section loop; ArrayVec::push panics when the list is full
ReadSection ==
    /\ pc = "sections"
    /\ \E st \in {SectionRead(file, pos, log)} :
           IF st.res # Ok THEN Failed(st.res, st.pos, st.log) /\ UNCHANGED sections
           ELSE IF Len(sections) >= SECTION_CAP
           THEN Failed(Panic("ArrayVec::push"), st.pos, st.log) /\ UNCHANGED sections
           ELSE /\ sections' = Append(sections, st.vals)
                /\ pos' = st.pos
                /\ log' = st.log
                /\ pc' = IF Len(sections) + 1 = pe["number_of_sections"]
                         THEN "cli" ELSE "sections"
                /\ UNCHANGED result
    /\ UNCHANGED <<file, overflow_checks, pe, cli, metadata_offset, version,
                   streams, stream_i, metadata, db, tables_offset, last>>

\* pe::offset_from(&pe.sections, rva) as Image::read calls it
Resolve(rva) ==
    offset_from([k \in 1..Len(sections) |-> WideSection(sections[k])], Wide(rva),
                overflow_checks)

\* Image::read: the CLR runtime header's RVA resolved, then CliHeader::read
ReadCliHeader ==
    /\ pc = "cli"
    /\ \E off \in {Resolve(pe["clr_runtime_header.rva"])} :
           IF off.panic THEN Failed(Panic("overflow"), pos, log) /\ UNCHANGED cli
           ELSE IF off.val = None
           THEN /\ Failed(InvalidImage("RvaOutOfRange", <<pe["clr_runtime_header.rva"]>>),
                          pos, log)
                /\ UNCHANGED cli
           ELSE \E st \in {Run(CliFields, file, Narrow(off.val[1]), NoVals,
                               Append(log, Goto(Narrow(off.val[1]))))} :
                    IF ~st.ok
                    THEN Failed(IO("UnexpectedEof"), st.pos, st.log) /\ UNCHANGED cli
                    ELSE /\ cli' = st.vals
                         /\ pos' = st.pos
                         /\ log' = st.log
                         /\ pc' = "metadata"
                         /\ UNCHANGED result
    /\ UNCHANGED <<file, overflow_checks, pe, sections, metadata_offset, version,
                   streams, stream_i, metadata, db, tables_offset, last>>

\* Image::read: the metadata RVA resolved, then MetadataRoot::read up to its loop
ReadMetadataRoot ==
    /\ pc = "metadata"
    /\ \E off \in {Resolve(cli["metadata.rva"])} :
           IF off.panic
           THEN Failed(Panic("overflow"), pos, log) /\ UNCHANGED <<metadata_offset, version>>
           ELSE IF off.val = None
           THEN /\ Failed(InvalidImage("RvaOutOfRange", <<cli["metadata.rva"]>>), pos, log)
                /\ UNCHANGED <<metadata_offset, version>>
           ELSE \E st \in {MetadataRootRead(file, Narrow(off.val[1]),
                                            Append(log, Goto(Narrow(off.val[1]))))} :
                    /\ metadata_offset' = Narrow(off.val[1])
                    /\ IF st.res # Ok
                       THEN Failed(st.res, st.pos, st.log) /\ UNCHANGED version
                       ELSE /\ version' = st.vals["version"]
                            /\ pos' = st.pos
                            /\ log' = st.log
                            /\ pc' = "streams"
                            /\ UNCHANGED result
    /\ UNCHANGED <<file, overflow_checks, pe, sections, cli, streams, stream_i,
                   metadata, db, tables_offset, last>>

\* one iteration of `for _ in 0..5` of MetadataRoot::read
ReadStreamHeader ==
    /\ pc = "streams"
    /\ stream_i < STREAM_COUNT
    /\ \E st \in {StreamHeaderRead(file, pos, log, streams)} :
           IF st.res # Ok
           THEN Failed(st.res, st.pos, st.log) /\ UNCHANGED <<streams, stream_i>>
           ELSE /\ streams' = st.vals
                /\ stream_i' = stream_i + 1
                /\ pos' = st.pos
                /\ log' = st.log
                /\ UNCHANGED <<pc, result>>
    /\ UNCHANGED <<file, overflow_checks, pe, sections, cli, metadata_offset, version,
                   metadata, db, tables_offset, last>>

\* a tables stream looked for at its offset from the start of the file
TablesStart_mut(mo, tables) == tables.offset

\* metadata_offset + metadata.tables.offset as u64, where Image::read seeks to
TablesStart(mo, tables) == mo + tables.offset

\* the end of MetadataRoot::read (the five unwraps), then Image::read's goto
FinishMetadataRoot ==
    /\ pc = "streams"
    /\ stream_i = STREAM_COUNT
    /\ IF \E r \in Roles : streams[r] = None
       THEN Failed(Panic("unwrap"), pos, log) /\ UNCHANGED metadata
       ELSE \E target \in {TablesStart(metadata_offset, streams["t"][1])} :
                /\ metadata' = [strings |-> streams["s"][1], us |-> streams["u"][1],
                                blob |-> streams["b"][1], guid |-> streams["g"][1],
                                tables |-> streams["t"][1]]
                /\ pos' = target
                /\ log' = Append(log, Goto(target))
                /\ pc' = "db"
                /\ UNCHANGED result
    /\ UNCHANGED <<file, overflow_checks, pe, sections, cli, metadata_offset, version,
                   streams, stream_i, db, tables_offset, last>>

\* Db::read, then Image::read records the cursor as tables_offset and returns
ReadDb ==
    /\ pc = "db"
    /\ \E st \in {DbRead(file, pos, log, overflow_checks)} :
           IF st.res # Ok
           THEN Failed(st.res, st.pos, st.log) /\ UNCHANGED <<db, tables_offset>>
           ELSE /\ db' = st.vals
                /\ tables_offset' = st.pos
                /\ pos' = st.pos
                /\ log' = st.log
                /\ pc' = "ready"
                /\ result' = Ok
    /\ UNCHANGED <<file, overflow_checks, pe, sections, cli, metadata_offset, version,
                   streams, stream_i, metadata, last>>

RowIndexChoices == (0..MaxRowIndex) \cup {65535, 65536}

\* DeferredReader::row::<t>(row_index)
Row(t, row_index) ==
    /\ pc = "ready"
    /\ \E r \in {DbRow(db, t, file, pos, tables_offset, row_index, overflow_checks)} :
           /\ last' = [table |-> t, row_index |-> row_index, res |-> r.res,
                       value |-> r.value, log |-> r.log, from |-> pos]
           /\ pos' \in CursorAfter(r.res, r.pos)
           /\ IF r.res.kind = "Panic"
              THEN pc' = "failed" /\ result' = r.res
              ELSE UNCHANGED <<pc, result>>
    /\ UNCHANGED <<file, overflow_checks, log, pe, sections, cli, metadata_offset,
                   version, streams, stream_i, metadata, db, tables_offset>>

Next ==
    \/ ReadImageHeader
    \/ ReadSection
    \/ ReadCliHeader
    \/ ReadMetadataRoot
    \/ ReadStreamHeader
    \/ FinishMetadataRoot
    \/ ReadDb
    \/ \E t \in TableTypes, i \in RowIndexChoices : Row(t, i)

Spec == Init /\ [][Next]_vars

----------------------------------------------------------------------------
(* DbRead::size and DbRead::read of one field, over schemas drawn directly *)

\* the implementations of DbRead
FieldTypes ==
    [u8 |-> U8, u16 |-> U16, u32 |-> U32, u64 |-> U64,
     AssemblyFlags |-> AssemblyFlags, AssemblyHashAlgorithm |-> AssemblyHashAlgorithm,
     StringIndex |-> StringIndex, GuidIndex |-> GuidIndex, BlobIndex |-> BlobIndex,
     RowIndexTypeDef |-> RowIndex(TableIndex.TypeDef),
     RowIndexField |-> RowIndex(TableIndex.Field),
     TypeDefOrRef |-> TypeDefOrRef, HasConstant |-> HasConstant,
     ResolutionScope |-> ResolutionScope]

\* the tables some field type's width depends on
TargetTables ==
    {TableIndex.Module, TableIndex.TypeRef, TableIndex.TypeDef, TableIndex.Field,
     TableIndex.Param, TableIndex.Property, TableIndex.ModuleRef, TableIndex.TypeSpec,
     TableIndex.AssemblyRef}

FieldRowCounts == {0, 16384, 16385, 65535, 65536}

\* HeapSizes bytes: the three heap bits in every combination, and bits the
\* format leaves unused
FieldHeapChoices == HeapChoices \cup {8, 248, 255}

\* pairs of tables given rows together (TypeDef with TypeSpec, TypeDef with
\* Field, Module with Param), and their row counts
PairTables ==
    {<<TableIndex.TypeDef, TableIndex.TypeSpec>>, <<TableIndex.TypeDef, TableIndex.Field>>,
     <<TableIndex.Module, TableIndex.Param>>}
PairCounts == {<<16384, 16385>>, <<16385, 16384>>, <<16384, 65536>>}

\* the row counts of the schemas a field is decoded under: one table with
\* rows, or two
FieldRows ==
    {[i \in TableIds |-> IF i = t THEN c ELSE 0] : t \in TargetTables, c \in FieldRowCounts}
    \cup {[i \in TableIds |-> IF i = p[1] THEN q[1] ELSE IF i = p[2] THEN q[2] ELSE 0] :
             p \in PairTables, q \in PairCounts}

\* the bytes a field is decoded from: whole, and cut short of 4, 2 and 1 bytes
FieldFiles ==
    {<<0, 0, 0, 0, 0, 0, 0, 0>>, <<1, 0, 0, 0, 0, 0, 0, 0>>, <<3, 0, 0, 0, 0, 0, 0, 0>>,
     <<2, 128, 0, 0>>, <<1, 0, 0>>, <<4>>, <<>>, <<5, 0, 1, 0, 0, 0, 0, 0>>,
     <<7, 0, 2, 0>>}

InitField ==
    /\ file \in FieldFiles
    /\ pos = 0
    /\ overflow_checks \in BOOLEAN
    /\ pc = "field"
    /\ result = Running
    /\ log = <<>>
    /\ pe = NoVals
    /\ sections = <<>>
    /\ cli = NoVals
    /\ metadata_offset = 0
    /\ version = <<>>
    /\ streams = [r \in Roles |-> None]
    /\ stream_i = 0
    /\ metadata = NoVals
    /\ \E h \in FieldHeapChoices, rows \in FieldRows :
           db = [lstreams |-> h, row_count |-> rows,
                 row_size |-> [i \in TableIds |-> 0], offsets |-> [i \in TableIds |-> 0]]
    /\ tables_offset = 0
    /\ last = NoCall

\* <T as DbRead>::read(db.meta(), data) for the field type named nm
DecodeField(nm) ==
    /\ pc = "field"
    /\ \E r \in {read(FieldTypes[nm], meta(db), file, pos, <<>>, nm)} :
           /\ last' = [table |-> nm, row_index |-> 0, res |-> r.res,
                       value |-> IF r.res = Ok THEN Some(r.vals) ELSE None,
                       log |-> r.log, from |-> pos]
           /\ pos' \in CursorAfter(r.res, r.pos)
    /\ pc' = "decoded"
    /\ UNCHANGED <<file, overflow_checks, result, log, pe, sections, cli, metadata_offset,
                   version, streams, stream_i, metadata, db, tables_offset>>

NextField == \E nm \in DOMAIN FieldTypes : DecodeField(nm)

SpecField == InitField /\ [][NextField]_vars

----------------------------------------------------------------------------
(* pe::offset_from over section tables drawn directly *)

MaxSections == 2   \* the longest section table drawn

\* a section of the table: its fields are u32 of any size
Sect(va, vsize, ptr) ==
    [virtual_addr |-> va, virtual_size |-> vsize, pointer_to_raw_data |-> ptr]

\* 0x2000..0x3000; 0x2800..0x3800, overlapping the first; an empty one;
\* 0xFFFFF000 with size 0x2000, whose end is beyond u32; 0x3000..0x4000 with a
\* file pointer of 0xFFFFFF00, which the mapped offset can pass
SectionChoices ==
    {Sect(<<0, 8192>>, <<0, 4096>>, <<0, 512>>),
     Sect(<<0, 10240>>, <<0, 4096>>, <<0, 4608>>),
     Sect(<<0, 8192>>, <<0, 0>>, <<0, 1536>>),
     Sect(<<65535, 61440>>, <<0, 8192>>, <<0, 1024>>),
     Sect(<<0, 12288>>, <<0, 4096>>, <<65535, 65280>>)}

SectionTables == UNION {[1..n -> SectionChoices] : n \in 0..MaxSections}

\* 0x500, 0x1FFF, 0x2000, 0x2900, 0x2FFF, 0x3000, 0x3200, 0x37FF, 0x3800,
\* 0xFFFFF800
RvaChoices ==
    {<<0, 1280>>, <<0, 8191>>, <<0, 8192>>, <<0, 10496>>, <<0, 12287>>, <<0, 12288>>,
     <<0, 12800>>, <<0, 14335>>, <<0, 14336>>, <<65535, 63488>>}

InitRva ==
    /\ file = <<>>
    /\ pos = 0
    /\ overflow_checks \in BOOLEAN
    /\ pc = "rva"
    /\ result = Running
    /\ log = <<>>
    /\ pe = NoVals
    /\ sections \in SectionTables
    /\ cli = NoVals
    /\ metadata_offset = 0
    /\ version = <<>>
    /\ streams = [r \in Roles |-> None]
    /\ stream_i = 0
    /\ metadata = NoVals
    /\ db = NoDb
    /\ tables_offset = 0
    /\ last = NoCall

\* offset_from(&sections, rva); last.row_index holds the rva asked for
OffsetFrom(rva) ==
    /\ pc = "rva"
    /\ \E r \in {offset_from(sections, rva, overflow_checks)} :
           last' = [table |-> "offset_from", row_index |-> rva,
                    res |-> IF r.panic THEN Panic("overflow") ELSE Ok,
                    value |-> r.val, log |-> <<>>, from |-> 0]
    /\ pc' = "resolved"
    /\ UNCHANGED <<file, pos, overflow_checks, result, log, pe, sections, cli,
                   metadata_offset, version, streams, stream_i, metadata, db,
                   tables_offset>>

NextRva == \E rva \in RvaChoices : OffsetFrom(rva)

SpecRva == InitRva /\ [][NextRva]_vars

----------------------------------------------------------------------------
(* What the accesses recorded in log say about a run *)

\* the positions in log of the reads of field nm that the source satisfied
Reads(nm) ==
    {k \in 1..Len(log) : /\ log[k].name = nm
                          /\ log[k].op \in {"read", "bytes"}
                          /\ log[k].at + log[k].n <= Len(file)}

\* the integer the k-th recorded access read
ValueAt(k) == from_le_bytes(Bytes(file, log[k].at, log[k].n))

\* a row() call has been made and has returned or panicked
Called == last.table # ""

----------------------------------------------------------------------------
(* Db::row beyond the last row *)

\* C1: a row() call for a table type with row_index >= row_count[T::INDEX]
\* returns Ok(None), never an error, wherever the cursor of the byte source
\* stood and whatever earlier calls did to it.
C1_NoSuchRowIsNone ==
    (Called /\ last.row_index >= db.row_count[Table[last.table].INDEX])
        => (last.res = Ok /\ last.value = None)

\* a call for the row one past the last, made with the cursor at the end of the
\* source where every read fails, has returned Ok(None)
C1_Witness ==
    /\ Called
    /\ last.row_index = db.row_count[Table[last.table].INDEX]
    /\ last.from = Len(file)
    /\ last.res = Ok /\ last.value = None

----------------------------------------------------------------------------
(* The offsets Db::read computes *)

\* C2: after Db::read succeeds, offsets[0] = 0 and, for every adjacent pair of
\* the 0x2D table ids, offsets[i + 1] = offsets[i] + row_count[i] * row_size[i]
\* (in the u32 arithmetic of the code).
C2_OffsetsChain ==
    pc = "ready" =>
        /\ db.offsets[0] = 0
        /\ \A i \in 0..(TABLE_COUNT - 2) :
               db.offsets[i + 1]
                   = add_u32(db.offsets[i], mul_u32(db.row_count[i], db.row_size[i]).val).val

----------------------------------------------------------------------------
(* The width a field is sized with and the width it is read with *)

\* C3: for every field type, every combination of the heap-size flags and
\* every row count of the target tables, a successful DbRead::read has moved the
\* cursor by exactly the number of bytes DbRead::size returns for that schema.
C3_ReadConsumesSize ==
    (pc = "decoded" /\ last.res = Ok)
        => pos - last.from = size(FieldTypes[last.table], meta(db))

\* a row index into a table of 65536 rows was decoded from four bytes
C3_Witness ==
    /\ pc = "decoded" /\ last.res = Ok
    /\ last.table = "RowIndexTypeDef"
    /\ db.row_count[TableIndex.TypeDef] = 65536
    /\ pos - last.from = 4

----------------------------------------------------------------------------
(* Panics *)

\* C4: whatever the bytes of the source, Image::read and every later row()
\* call end with a value, an InvalidImage reason or an I/O failure: never with
\* a panic.
C4_NoPanic == result.kind # "Panic" /\ last.res.kind # "Panic"

----------------------------------------------------------------------------
(* The stream count of the metadata root *)

\* C5: when the 16-bit stream count read is not 5, MetadataRoot::read has
\* failed with StreamCount carrying that value, and the count is the last thing
\* it read: the cursor stands right after it and no stream header is held.
C5_StreamCountChecked ==
    \A k \in Reads("stream_count") :
        ValueAt(k) # 5 =>
            /\ pc = "failed"
            /\ result = InvalidImage("StreamCount", <<ValueAt(k)>>)
            /\ k = Len(log)
            /\ pos = log[k].at + 2
            /\ stream_i = 0
            /\ \A r \in Roles : streams[r] = None

\* a root announcing six streams was refused with StreamCount(6)
C5_Witness ==
    /\ \E k \in Reads("stream_count") : ValueAt(k) = 6
    /\ result = InvalidImage("StreamCount", <<6>>)

----------------------------------------------------------------------------
(* The names of the stream headers *)

\* the name of the stream header at the cursor, as the loop is about to read it
NextName == stream_name(file, pos + 8, <<>>, <<>>)

\* the loop is about to read a header whose name is recognized and whose slot
\* already holds a header
DuplicateAhead ==
    /\ pc = "streams" /\ stream_i < 5
    /\ pos + 8 <= Len(file)
    /\ NextName.res = Ok
    /\ StreamRole(NextName.vals) # None
    /\ streams[StreamRole(NextName.vals)[1]] # None

AcceptedNames == {NAME_STRINGS, NAME_US, NAME_BLOB, NAME_GUID, NAME_TABLES}

\* the k-th recorded access is one 4-byte chunk of a stream name
IsChunk(k) == log[k].name = "name" /\ log[k].op = "bytes" /\ log[k].n = 4

\* where the chunks that end log start
NameStart ==
    CHOOSE j \in 1..(Len(log) + 1) :
        /\ \A i \in j..Len(log) : IsChunk(i)
        /\ j = 1 \/ ~IsChunk(j - 1)

\* the bytes of those chunks
NameRead == Bytes(file, log[NameStart].at, 4 * (Len(log) + 1 - NameStart))

\* the last thing read is a whole stream name: its last chunk was read in full
\* and holds a NUL, or 32 bytes are held
NameComplete ==
    /\ log # <<>> /\ IsChunk(Len(log))
    /\ log[Len(log)].at + 4 <= Len(file)
    /\ \/ Len(NameRead) = 32
       \/ \E k \in 1..4 : file[log[Len(log)].at + k] = 0

\* C7 as stated: whenever a stream name read is not one of the five NUL-padded
\* names, MetadataRoot::read has failed with StreamName.
C7_UnknownNameIsStreamName ==
    (NameComplete /\ NameRead \notin AcceptedNames)
        => (pc = "failed" /\ result = InvalidImage("StreamName", NameRead))

\* C7, amended: whenever a stream name read is valid UTF-8 and is not one of
\* the five NUL-padded names, MetadataRoot::read has failed with StreamName;
\* a name that is not valid UTF-8 fails with an I/O error; either way the read
\* has failed and the name has filled no slot.
C7_UnknownUtf8NameIsStreamName ==
    (NameComplete /\ NameRead \notin AcceptedNames) =>
        /\ pc = "failed"
        /\ IF from_utf8_ok(NameRead)
           THEN result = InvalidImage("StreamName", NameRead)
           ELSE result = IO("InvalidData")
        /\ Cardinality({r \in Roles : streams[r] # None}) = stream_i

\* the read failed with StreamName on "#USA", after one header was stored
C7_Witness ==
    /\ NameComplete
    /\ NameRead = <<35, 85, 83, 65, 0, 0, 0, 0>>
    /\ result = InvalidImage("StreamName", NameRead)
    /\ stream_i = 1

----------------------------------------------------------------------------
(* The version string of the metadata root *)

\* C8: when the 32-bit length prefix of the version string is greater than 256,
\* MetadataRoot::read has failed with an error; when it is at most 256, the
\* next thing read is the version string, of exactly that many bytes.
C8_VersionLength ==
    \A k \in Reads("len") :
        IF ValueAt(k) > 256
        THEN pc = "failed" /\ result.kind \in {"IO", "InvalidImage"}
        ELSE /\ k < Len(log)
             /\ log[k + 1].op = "bytes" /\ log[k + 1].name = "version"
             /\ log[k + 1].at = log[k].at + 4
             /\ log[k + 1].n = ValueAt(k)

----------------------------------------------------------------------------
(* The layout of the optional header *)

\* the fields whose width the layout decides
FitNames ==
    {"image_base", "size_of_stack_reserve", "size_of_stack_commit",
     "size_of_heap_reserve", "size_of_heap_commit"}

\* the data directories in the order of the PE format; the two that
\* ImageHeader::read skips (Architecture, Reserved) are left unnamed
DirOrder ==
    <<"export", "import", "resource", "exception", "certificate", "base_relocation",
      "debug", "", "global_ptr", "tls", "load_config", "bound_import", "iat",
      "delay_import_descriptor", "clr_runtime_header", "">>

\* the recorded accesses to field nm that come after the k-th
After(k, nm) == {j \in (k + 1)..Len(log) : log[j].name = nm}

\* C9: a Magic other than 0x10B and 0x20B fails with Magic(value) and nothing
\* is read after it; with 0x10B the image base and the four stack/heap sizes
\* are read as 4 bytes, directory d at 96 + 8d and the section headers from 224
\* bytes after the Magic field on; with 0x20B they are read as 8 bytes,
\* directory d at 112 + 8d and the section headers from 240 on. A header that
\* was returned has had every one of those fields read.
C9_LayoutByMagic ==
    \A k \in Reads("magic") :
        IF ValueAt(k) \notin {267, 523}
        THEN /\ pc = "failed"
             /\ result = InvalidImage("Magic", <<ValueAt(k)>>)
             /\ k = Len(log)
        ELSE \E lay \in {IF ValueAt(k) = 523 THEN [w |-> 8, dirs |-> 112, secs |-> 240]
                          ELSE [w |-> 4, dirs |-> 96, secs |-> 224]} :
             /\ \A nm \in FitNames :
                    /\ \A j \in After(k, nm) : log[j].n = lay.w
                    /\ pe # NoVals => After(k, nm) # {}
             /\ \A d \in 1..16 :
                    DirOrder[d] # "" =>
                        /\ \A j \in After(k, DirOrder[d] \o ".rva") :
                               /\ log[j].n = 4
                               /\ log[j].at = log[k].at + lay.dirs + 8 * (d - 1)
                        /\ \A j \in After(k, DirOrder[d] \o ".size") :
                               /\ log[j].n = 4
                               /\ log[j].at = log[k].at + lay.dirs + 8 * (d - 1) + 4
                        /\ pe # NoVals =>
                               /\ After(k, DirOrder[d] \o ".rva") # {}
                               /\ After(k, DirOrder[d] \o ".size") # {}
             /\ \A j \in After(k, "name") :
                    log[j].n = 8 =>
                        \E sc \in 0..15 : log[j].at = log[k].at + lay.secs + 40 * sc
             /\ Len(sections) > 0 =>
                    \E j \in After(k, "name") :
                        log[j].n = 8 /\ log[j].at = log[k].at + lay.secs

\* a PE32+ header was returned and its two section headers read
C9_Witness ==
    /\ pe # NoVals
    /\ pe["magic"] = 523
    /\ Len(sections) = 2

----------------------------------------------------------------------------
(* NumberOfRvaAndSizes *)

----------------------------------------------------------------------------
(* The section table *)

\* the file offset of the first section header: right after the optional header
SectionsStart ==
    LET k == CHOOSE j \in Reads("magic") : TRUE
    IN  log[k].at + (IF ValueAt(k) = 523 THEN 240 ELSE 224)

\* ImageHeader::read has returned a header
HeaderReturned ==
    pe # NoVals /\ pc \notin {"start", "sections"}
                /\ Len(sections) = pe["number_of_sections"]

\* C11: whenever the COFF number of sections read exceeds 16, ImageHeader::read
\* has failed without reading a section header; a header that was returned
\* holds exactly number_of_sections sections, at most 16, the i-th decoded from
\* the i-th 40-byte section header of the file; and pushing a section never
\* finds the list full.
C11_SectionCap ==
    /\ \A k \in Reads("number_of_sections") :
           ValueAt(k) > 16 =>
               /\ pc = "failed" /\ pe = NoVals /\ sections = <<>>
               /\ After(k, "name") = {}
               /\ result.kind = "InvalidImage" /\ result.reason = "SectionCount"
                      => result.val = <<ValueAt(k)>>
               /\ (/\ Reads("clr_runtime_header.size") # {}
                   /\ \A j \in Reads("num_data_dirs") : ValueAt(j) = 16)
                      => result = InvalidImage("SectionCount", <<ValueAt(k)>>)
    /\ Len(sections) <= 16
    /\ result # Panic("ArrayVec::push")
    /\ pe # NoVals =>
           /\ Len(sections) <= pe["number_of_sections"]
           /\ pc \notin {"start", "sections", "failed"}
                  => Len(sections) = pe["number_of_sections"]
           /\ \A i \in 1..Len(sections) :
                  /\ sections[i]["name"] = Bytes(file, SectionsStart + 40 * (i - 1), 8)
                  /\ sections[i]["virtual_size"]
                         = from_le_bytes(Bytes(file, SectionsStart + 40 * (i - 1) + 8, 4))
                  /\ sections[i]["virtual_addr"]
                         = from_le_bytes(Bytes(file, SectionsStart + 40 * (i - 1) + 12, 4))
                  /\ sections[i]["pointer_to_raw_data"]
                         = from_le_bytes(Bytes(file, SectionsStart + 40 * (i - 1) + 20, 4))

\* a header with sixteen sections was returned, the last of them the sixteenth
\* of the file
C11_Witness ==
    /\ HeaderReturned
    /\ Len(sections) = 16
    /\ sections[16]["virtual_addr"] = 8192 * 16

----------------------------------------------------------------------------
(* The RVA resolver *)

\* virtual_addr <= rva < virtual_addr + virtual_size, in the integers
Contains(sc, rva) ==
    /\ ~wide_lt(rva, sc.virtual_addr)
    /\ \/ wide_add(sc.virtual_addr, sc.virtual_size).ovf
       \/ wide_lt(rva, wide_add(sc.virtual_addr, sc.virtual_size).val)

\* the sections of the table, by position, whose range contains the rva asked for
Containing == {k \in 1..Len(sections) : Contains(sections[k], last.row_index)}

FirstContaining == CHOOSE k \in Containing : \A j \in Containing : k <= j

\* rva - virtual_addr + pointer_to_raw_data of a section containing rva, and
\* whether that value is beyond u32
MappedBy(sc, rva) == wide_add(wide_sub(rva, sc.virtual_addr).val, sc.pointer_to_raw_data)

\* C12: offset_from returns rva - virtual_addr + pointer_to_raw_data of the
\* first section, in declared order, whose range virtual_addr <= rva <
\* virtual_addr + virtual_size contains rva, also when a later section contains
\* it too, and None when no section contains it.
C12_FirstMatch ==
    pc = "resolved" =>
        /\ last.res = Ok
        /\ IF Containing = {} THEN last.value = None
           ELSE /\ ~MappedBy(sections[FirstContaining], last.row_index).ovf
                /\ last.value
                       = Some(MappedBy(sections[FirstContaining], last.row_index).val)

\* the same, on the tables whose sections end within u32 and map within u32
C12_FirstMatchInRange ==
    (/\ pc = "resolved"
     /\ \A k \in 1..Len(sections) :
            /\ ~wide_add(sections[k].virtual_addr, sections[k].virtual_size).ovf
            /\ ~wide_add(sections[k].virtual_size, sections[k].pointer_to_raw_data).ovf)
        => C12_FirstMatch

----------------------------------------------------------------------------
(* RVAs that lie in no section *)

\* no section that was read holds rva
InNoSection(rva) ==
    \A i \in 1..Len(sections) :
        \/ rva < sections[i]["virtual_addr"]
        \/ rva >= sections[i]["virtual_addr"] + sections[i]["virtual_size"]

\* the seeks to an absolute offset made so far
Gotos == {k \in 1..Len(log) : log[k].op = "goto"}

\* where the latest access left the cursor
AfterLatest == log[Len(log)].at + log[Len(log)].n

\* C13: when the RVA of the CLR runtime header lies in no section, Image::read
\* has failed with RvaOutOfRange(rva) right after ImageHeader::read: it has
\* made no seek or read since, and no CLI header, metadata root or schema was
\* read. When the metadata RVA of the CLI header lies in no section it has
\* failed with RvaOutOfRange(rva) right after CliHeader::read likewise.
C13_RvaOutOfRange ==
    /\ (HeaderReturned /\ pc # "cli" /\ InNoSection(pe["clr_runtime_header.rva"])) =>
           /\ pc = "failed"
           /\ result = InvalidImage("RvaOutOfRange", <<pe["clr_runtime_header.rva"]>>)
           /\ Cardinality(Gotos) = 1
           /\ log[Len(log)].name \in {"", "characteristics"}
           /\ pos = AfterLatest
           /\ cli = NoVals /\ version = <<>> /\ stream_i = 0
           /\ metadata = NoVals /\ db = NoDb
    /\ (cli # NoVals /\ pc # "metadata" /\ InNoSection(cli["metadata.rva"])) =>
           /\ pc = "failed"
           /\ result = InvalidImage("RvaOutOfRange", <<cli["metadata.rva"]>>)
           /\ Cardinality(Gotos) = 2
           /\ log[Len(log)].op = "skip" /\ log[Len(log)].n = 16
           /\ pos = AfterLatest
           /\ version = <<>> /\ stream_i = 0 /\ metadata = NoVals /\ db = NoDb

\* the read failed with RvaOutOfRange on the metadata RVA of a CLI header that
\* was read
C13_Witness ==
    /\ cli # NoVals
    /\ InNoSection(cli["metadata.rva"])
    /\ result = InvalidImage("RvaOutOfRange", <<cli["metadata.rva"]>>)

----------------------------------------------------------------------------
(* The Valid bitmap of the tables stream *)

\* the eight bytes the k-th recorded access read
BytesAt(k) == Bytes(file, log[k].at, log[k].n)

\* a bit at position 0x2D or above is set in the eight little-endian bytes v:
\* bit 45 is bit 5 of the sixth byte
HighBitSet(v) == v[6] >= 32 \/ v[7] > 0 \/ v[8] > 0

\* C14: whenever the Valid bitmap read has a bit set at position 0x2D or above,
\* Db::read has failed with TableCount(valid) and the bitmap is the last thing
\* it read: no row count was read; when Db::read has succeeded, no bit of Valid
\* at position 0x2D or above is set.
C14_ValidChecked ==
    /\ \A k \in Reads("valid") :
           HighBitSet(BytesAt(k)) =>
               /\ pc = "failed"
               /\ result = InvalidImage("TableCount", BytesAt(k))
               /\ k = Len(log)
               /\ pos = log[k].at + 8
               /\ db = NoDb
    /\ pc = "ready" =>
           /\ Reads("valid") # {}
           /\ \A k \in Reads("valid") : ~HighBitSet(BytesAt(k))

\* a bitmap with bit 0x2D set was refused with TableCount
C14_Witness ==
    /\ \E k \in Reads("valid") : BytesAt(k) = <<1, 0, 0, 0, 0, 32, 0, 0>>
    /\ result = InvalidImage("TableCount", <<1, 0, 0, 0, 0, 32, 0, 0>>)

----------------------------------------------------------------------------
(* Coded indices *)

\* the candidate tables of the three coded indices, by table id, in the order
\* of their tags: TypeDef, TypeRef, TypeSpec; Field, Param, Property; Module,
\* ModuleRef, AssemblyRef, TypeRef
Candidates ==
    [TypeDefOrRef |-> <<2, 1, 27>>, HasConstant |-> <<4, 8, 23>>,
     ResolutionScope |-> <<0, 26, 35, 1>>]

\* the integer of w bytes at the cursor the latest decode started from
Coded(w) == from_le_bytes(Bytes(file, last.from, w))

\* C15: decoding a coded index (two tag bits) reads one integer v of the width
\* its size selects; with tag = v mod 4 it returns (the candidate at position
\* tag, v >> 2) when tag is below the number of candidates and fails with
\* CodedIndex(tag) otherwise, which for ResolutionScope, with four candidates,
\* never happens.
C15_CodedIndex ==
    (pc = "decoded" /\ last.table \in DOMAIN Candidates) =>
        \E w \in {size(FieldTypes[last.table], meta(db))} :
            /\ w = IF \E t \in 1..Len(Candidates[last.table]) :
                          db.row_count[Candidates[last.table][t]] > 16384
                   THEN 4 ELSE 2
            /\ last.log = <<[op |-> "read", name |-> last.table, at |-> last.from, n |-> w]>>
            /\ last.from + w <= Len(file) =>
                   IF Coded(w) % 4 < Len(Candidates[last.table])
                   THEN /\ last.res = Ok
                        /\ last.value = Some(<<Candidates[last.table][(Coded(w) % 4) + 1],
                                                Coded(w) \div 4>>)
                   ELSE /\ last.res = InvalidImage("CodedIndex", <<Coded(w) % 4>>)
                        /\ last.table # "ResolutionScope"

\* a TypeDefOrRef read from four bytes with tag 3 failed with CodedIndex(3)
C15_Witness ==
    /\ pc = "decoded" /\ last.table = "TypeDefOrRef"
    /\ last.log[1].n = 4
    /\ last.res = InvalidImage("CodedIndex", <<3>>)

\* a ResolutionScope with tag 3 and a row index beyond 16 bits was decoded
C15_WitnessScope ==
    /\ pc = "decoded" /\ last.table = "ResolutionScope"
    /\ last.value = Some(<<1, 32769>>)

----------------------------------------------------------------------------
(* row() calls in any order *)

\* what row::<t>(i) returns when it is the first call made on the reader, with
\* the cursor at the start of the source
FirstCall(t, i) == DbRow(db, t, file, 0, tables_offset, i, overflow_checks)

\* where row i of the Module table starts
ModuleRowAt(i) == tables_offset + db.offsets[0] + i * db.row_size[0]

\* C16: the result of a row() call depends only on its table type and row
\* index: whatever calls came before it and wherever they left the cursor, it
\* is the result the same call gives as the first call on the reader, and a
\* Module row returned is decoded from the bytes at the row's own offset.
C16_RowOrderIndependent ==
    Called =>
        /\ last.res = FirstCall(last.table, last.row_index).res
        /\ last.value = FirstCall(last.table, last.row_index).value
        /\ (last.table = "Module" /\ last.value # None) =>
               last.value[1]["generation"]
                   = from_le_bytes(Bytes(file, ModuleRowAt(last.row_index), 2))

\* a call made after a failed call had left the cursor at the end of the source
\* returned a row
C16_Witness ==
    /\ Called
    /\ last.from = Len(file)
    /\ last.res = Ok /\ last.value # None

----------------------------------------------------------------------------
(* The pointer to the PE header *)

\* the source was handed to the reader with its cursor at the start
FromStart == log # <<>> /\ log[1].at = 0

\* the recorded accesses to the PE signature
SignatureReads == {k \in 1..Len(log) : log[k].name = "pe_signature"}

\* C17: in a run over a source handed over at its start, with p the 32-bit
\* little-endian value at offset 0x3C (also when p >= 65536), the 4-byte PE
\* signature is read at file offset p.
C17_PointerIs32Bit ==
    (FromStart /\ Len(file) >= 64) =>
        /\ SignatureReads # {}
        /\ \A k \in SignatureReads :
               log[k].n = 4 /\ log[k].at = from_le_bytes(Bytes(file, 60, 4))

\* the same for the 16 bits that ImageHeader::read reads at 0x3C
C17_PointerIs16Bit ==
    (FromStart /\ Len(file) >= 62) =>
        /\ SignatureReads # {}
        /\ \A k \in SignatureReads :
               log[k].n = 4 /\ log[k].at = from_le_bytes(Bytes(file, 60, 2))

\* C18: ImageHeader::read reads the PE-header pointer at the absolute offset
\* 0x3C wherever the cursor of the source stood, and its result is the one it
\* gives on the same bytes from cursor 0: the same header or the same error.
C18_StartIndependent ==
    (pc # "start" /\ ~FromStart) =>
        /\ log[2].at = 60
        /\ \E h \in {ImageHeaderRead(file, 0)} :
               IF h.res = Ok THEN pe = h.vals
               ELSE pe = NoVals /\ result = h.res

----------------------------------------------------------------------------
(* Between the signature and the version string *)

\* the recorded accesses to the length prefix of the version string
LengthReads == {j \in 1..Len(log) : log[j].name = "len"}

\* C19 as stated: after the 4-byte signature MetadataRoot::read skips 4 bytes,
\* so that the length prefix of the version string is read at offset 8 of the
\* metadata root.
C19_LengthAtEight ==
    \A k \in Reads("signature") :
        ValueAt(k) = 1112167234 =>
            /\ LengthReads # {}
            /\ \A j \in LengthReads : log[j].n = 4 /\ log[j].at = log[k].at + 8

\* C19, amended: after the 4-byte signature MetadataRoot::read skips 8 bytes
\* (major version, minor version and the reserved field), so that the 32-bit
\* length prefix of the version string is read at offset 12 of the metadata
\* root.
C19_LengthAtTwelve ==
    \A k \in Reads("signature") :
        ValueAt(k) = 1112167234 =>
            /\ LengthReads # {}
            /\ \A j \in LengthReads :
                   /\ log[j].n = 4 /\ log[j].at = log[k].at + 12
                   /\ j = k + 2 /\ log[k + 1] = [op |-> "skip", name |-> "",
                                                  at |-> log[k].at + 4, n |-> 8]

\* a length prefix of 12 was read at offset 12 of the root, and the version
\* string after it
C19_Witness ==
    /\ version # <<>>
    /\ \E j \in Reads("len") : ValueAt(j) = 12 /\ log[j].at = metadata_offset + 12

----------------------------------------------------------------------------
(* The five stream headers *)

\* the name of each role, and the field of MetadataRoot that holds its header
RoleName ==
    [s |-> NAME_STRINGS, u |-> NAME_US, b |-> NAME_BLOB, g |-> NAME_GUID,
     t |-> NAME_TABLES]

RoleField == [s |-> "strings", u |-> "us", b |-> "blob", g |-> "guid", t |-> "tables"]

\* the stream headers read in full that carry the name of role r: the name
\* follows the 4-byte offset and the 4-byte size
HeadersNamed(r) ==
    {k \in Reads("offset") :
        /\ log[k].at + 8 + Len(RoleName[r]) <= Len(file)
        /\ Bytes(file, log[k].at + 8, Len(RoleName[r])) = RoleName[r]}

\* C20: every iteration of the stream loop that does not fail fills one empty
\* slot, so after five iterations each of the five roles is assigned, exactly
\* once, and none of the five unwraps fails; each StreamHeader returned holds
\* the offset and the size read with the one header that carries its name.
C20_FiveRolesFilled ==
    /\ Cardinality({r \in Roles : streams[r] # None}) = stream_i
    /\ result # Panic("unwrap")
    /\ (pc = "streams" /\ stream_i = 5) => \A r \in Roles : streams[r] # None
    /\ metadata # NoVals =>
           \A r \in Roles :
               /\ Cardinality(HeadersNamed(r)) = 1
               /\ \A k \in HeadersNamed(r) :
                      metadata[RoleField[r]]
                          = [offset |-> ValueAt(k), size |-> ValueAt(k + 1)]

\* a root whose second and third headers are "#US" and "#Strings" was
\* returned, each role with the size written with its name
C20_Witness ==
    /\ metadata # NoVals
    /\ metadata["us"].size = 18
    /\ metadata["strings"].size = 19
    /\ metadata["blob"] = [offset |-> 4101, size |-> 21]

----------------------------------------------------------------------------
(* The row counts of the tables stream *)

\* where Db::read started: its first read, of HeapSizes, follows a skip of 6
DbStart == log[CHOOSE k \in Reads("lstreams") : TRUE].at - 6

\* bit i of the Valid bitmap in the file
ValidInFile(i) == (file[DbStart + 9 + (i \div 8)] \div (2 ^ (i % 8))) % 2 = 1

\* the table ids below i whose bit is set
SetBelow(i) == {j \in 0..(i - 1) : ValidInFile(j)}

\* C21: a successful Db::read has read one 32-bit row count per set bit of
\* Valid, in ascending table-id order, into the row count of that table id; a
\* table whose bit is clear has row count 0; and the cursor has advanced by
\* exactly 24 + 4 * (number of set bits of Valid) bytes.
C21_RowCounts ==
    pc = "ready" =>
        /\ tables_offset - DbStart = 24 + 4 * Cardinality(SetBelow(64))
        /\ \A i \in TableIds :
               db.row_count[i]
                   = IF ValidInFile(i)
                     THEN from_le_bytes(Bytes(file, DbStart + 24
                                                      + 4 * Cardinality(SetBelow(i)), 4))
                     ELSE 0

\* a schema with the tables 0, 1, 32, 33 and 34 was read: 44 bytes, the first
\* count for Module, the second for TypeRef
C21_Witness ==
    /\ pc = "ready"
    /\ SetBelow(64) = {0, 1, 32, 33, 34}
    /\ tables_offset - DbStart = 44
    /\ db.row_count[0] = 1 /\ db.row_count[1] = 2 /\ db.row_count[32] = 3

----------------------------------------------------------------------------
(* The schema entries of the five row types *)

\* the sum of row_count[j] * row_size[j] over the table ids j < n, in u32
RECURSIVE SizeBelow(_, _)
SizeBelow(d, n) ==
    IF n = 0 THEN 0
    ELSE add_u32(SizeBelow(d, n - 1),
                 mul_u32(d.row_count[n - 1], d.row_size[n - 1]).val).val

\* C22: after a successful Db::read, for each of the row types Module, TypeRef,
\* Assembly, AssemblyOs and AssemblyProcessor, the schema's row_size entry at
\* the table's id is the sum of the widths of the table's fields, and its
\* offsets entry is the sum of row_count[j] * row_size[j] over the ids below.
C22_SchemaEntries ==
    pc = "ready" =>
        \A t \in TableTypes :
            /\ db.row_size[Table[t].INDEX] = row_size(t, meta(db))
            /\ db.offsets[Table[t].INDEX] = SizeBelow(db, Table[t].INDEX)

----------------------------------------------------------------------------
(* Table::row and Table::row_size *)

\* the latest row() call decoded a row
Decoded == Called /\ last.table \in TableTypes /\ last.res = Ok /\ last.value # None

\* C23: a successful Table::row decode reads the fields of the row type in
\* declared order, each where the one before ended, and leaves the cursor
\* exactly Table::row_size(schema) bytes after the first byte of the row, which
\* is where the next row of a packed table starts.
C23_RowAdvance ==
    Decoded =>
        LET flds == Table[last.table].fields
            start == last.log[1].at
        IN  /\ Len(last.log) = Len(flds) + 1
            /\ \A k \in 1..Len(flds) :
                   /\ last.log[k + 1].name = flds[k].name
                   /\ last.log[k + 1].n = size(flds[k].type, meta(db))
                   /\ last.log[k + 1].at
                          = IF k = 1 THEN start ELSE last.log[k].at + last.log[k].n
            /\ pos = start + row_size(last.table, meta(db))

\* a TypeRef row with a 4-byte resolution scope and 4-byte name indices was
\* decoded: 12 bytes
C23_Witness ==
    /\ Decoded
    /\ last.table = "TypeRef"
    /\ row_size("TypeRef", meta(db)) = 12
    /\ pos = last.log[1].at + 12

\* an Assembly row was decoded
C23_WitnessAssembly ==
    /\ Decoded
    /\ last.table = "Assembly"
    /\ pos = last.log[1].at + row_size("Assembly", meta(db))

----------------------------------------------------------------------------
(* The width of a coded index *)

\* the largest row count among the candidate tables of the coded index nm
Largest(nm) ==
    CHOOSE c \in {db.row_count[Candidates[nm][k]] : k \in 1..Len(Candidates[nm])} :
        \A k \in 1..Len(Candidates[nm]) : db.row_count[Candidates[nm][k]] <= c

\* the schema with the rows of every table outside the candidates of nm removed
OnlyCandidates(nm) ==
    [lstreams |-> 0,
     rows |-> [i \in TableIds |->
                  IF \E k \in 1..Len(Candidates[nm]) : Candidates[nm][k] = i
                  THEN db.row_count[i] ELSE 0]]

\* C24: a coded index with N tag bits is 2 bytes wide unless the largest row
\* count among its candidate tables exceeds 2^(16-N), and then 4 bytes wide;
\* with two tag bits it is 2 bytes wide for a largest count of 16384 and 4 for
\* 16385; and the rows of tables outside the candidate list do not change it.
C24_CodedWidth ==
    (pc = "decoded" /\ last.table \in DOMAIN Candidates) =>
        \E w \in {size(FieldTypes[last.table], meta(db))} :
            /\ w = IF Largest(last.table) > 2 ^ (16 - FieldTypes[last.table].bits)
                   THEN 4 ELSE 2
            /\ FieldTypes[last.table].bits = 2 /\ Largest(last.table) = 16384 => w = 2
            /\ FieldTypes[last.table].bits = 2 /\ Largest(last.table) = 16385 => w = 4
            /\ w = size(FieldTypes[last.table], OnlyCandidates(last.table))
            /\ last.log[1].n = w

\* a TypeDefOrRef was read in 2 bytes under a schema whose largest candidate,
\* TypeDef, has 16384 rows while the Field table, no candidate, has 65536
C24_Witness ==
    /\ pc = "decoded" /\ last.table = "TypeDefOrRef"
    /\ db.row_count[TableIndex.TypeDef] = 16384
    /\ db.row_count[TableIndex.Field] = 65536
    /\ last.log[1].n = 2

\* a TypeDefOrRef was read in 4 bytes: TypeDef has 16384 rows, TypeSpec 16385
C24_WitnessWide ==
    /\ pc = "decoded" /\ last.table = "TypeDefOrRef"
    /\ db.row_count[TableIndex.TypeDef] = 16384
    /\ db.row_count[TableIndex.TypeSpec] = 16385
    /\ last.log[1].n = 4

----------------------------------------------------------------------------
(* The width of a heap index *)

\* the HeapSizes bit of each heap index, by number: bit0 String, bit1 Guid,
\* bit2 Blob
HeapBit == [StringIndex |-> 0, GuidIndex |-> 1, BlobIndex |-> 2]

\* bit k of the HeapSizes byte of the schema
HeapBitSet(k) == (db.lstreams \div (2 ^ k)) % 2 = 1

\* C25: a heap index is 4 bytes wide iff its own HeapSizes bit is set (bit0
\* for StringIndex, bit1 for GuidIndex, bit2 for BlobIndex) and 2 bytes wide
\* otherwise, whatever the other bits and the row counts are; the index
\* decoded is the little-endian integer of that width at the cursor, so a
\* 2-byte index is below 65536.
C25_HeapWidth ==
    (pc = "decoded" /\ last.table \in DOMAIN HeapBit) =>
        \E w \in {IF HeapBitSet(HeapBit[last.table]) THEN 4 ELSE 2} :
            /\ size(FieldTypes[last.table], meta(db)) = w
            /\ last.log = <<[op |-> "read", name |-> last.table, at |-> last.from, n |-> w]>>
            /\ last.from + w <= Len(file) =>
                   /\ last.res = Ok
                   /\ last.value = Some(Coded(w))
                   /\ w = 2 => last.value[1] < 65536

\* a GuidIndex was read in 2 bytes, as 5, from bytes whose 4-byte integer is
\* 65541, under a schema with every HeapSizes bit but bit1 set and a table of
\* 65536 rows
C25_Witness ==
    /\ pc = "decoded" /\ last.table = "GuidIndex"
    /\ db.lstreams = 5
    /\ \E t \in TargetTables : db.row_count[t] = 65536
    /\ Len(file) >= 4
    /\ Coded(4) = 65541
    /\ last.value = Some(5)

\* a BlobIndex was read in 4 bytes under HeapSizes = 0xFF
C25_WitnessWide ==
    /\ pc = "decoded" /\ last.table = "BlobIndex"
    /\ db.lstreams = 255
    /\ last.value = Some(65541)

----------------------------------------------------------------------------
(* Where Image::read finds the tables stream and the row data *)

\* the sections, by position, whose virtual range holds the metadata RVA of
\* the CLI header
MetadataSections ==
    {k \in 1..Len(sections) :
        /\ sections[k]["virtual_addr"] <= cli["metadata.rva"]
        /\ cli["metadata.rva"] < sections[k]["virtual_addr"] + sections[k]["virtual_size"]}

\* the file offset of the metadata RVA in the section of position k
MetadataAt(k) ==
    cli["metadata.rva"] - sections[k]["virtual_addr"] + sections[k]["pointer_to_raw_data"]

\* C26: when Image::read succeeds, metadata_offset is the file offset the
\* metadata RVA of the CLI header maps to; the schema was parsed after a seek
\* to metadata_offset + metadata.tables.offset; tables_offset is that offset
\* plus 24 + 4 * (number of set bits of Valid); and row::<Module>(0), when the
\* row exists, is decoded from the bytes at tables_offset.
C26_TablesOffset ==
    pc = "ready" =>
        /\ MetadataSections # {}
        /\ metadata_offset
               = MetadataAt(CHOOSE k \in MetadataSections : \A j \in MetadataSections : k <= j)
        /\ \E k \in Reads("lstreams") :
               /\ log[k - 2] = Goto(metadata_offset + metadata.tables.offset)
               /\ log[k - 1].op = "skip" /\ log[k - 1].at = log[k - 2].at
               /\ log[k].at = log[k - 2].at + 6
        /\ tables_offset = metadata_offset + metadata.tables.offset
                               + 24 + 4 * Cardinality(SetBelow(64))
        /\ (Decoded /\ last.table = "Module" /\ last.row_index = 0) =>
               /\ last.log[1] = Goto(tables_offset)
               /\ last.log[2].at = tables_offset
               /\ last.value[1]["generation"] = from_le_bytes(Bytes(file, tables_offset, 2))

\* row 0 of Module was decoded from the row data that starts 44 bytes into a
\* tables stream that does not start at the metadata root
C26_Witness ==
    /\ pc = "ready"
    /\ metadata.tables.offset > 0
    /\ metadata_offset > 0
    /\ tables_offset = metadata_offset + metadata.tables.offset + 44
    /\ Decoded /\ last.table = "Module" /\ last.row_index = 0
    /\ last.log[1].at = tables_offset

----------------------------------------------------------------------------
(* section_from and offset_from on values near the end of u32 *)

\* C27: for all u32 values of virtual_addr, virtual_size and rva, offset_from
\* never faults on an overflow; it finds a section exactly when some section
\* has virtual_addr <= rva < virtual_addr + virtual_size with the sum taken in
\* unbounded arithmetic, so also when the sum is 2^32 or more; and the offset
\* it returns is rva - virtual_addr + pointer_to_raw_data of a section holding
\* rva, a value that did not pass 2^32.
C27_NoWraparound ==
    pc = "resolved" =>
        /\ last.res # Panic("overflow")
        /\ (last.value = None) <=> (Containing = {})
        /\ last.value # None =>
               \E k \in Containing :
                   /\ ~MappedBy(sections[k], last.row_index).ovf
                   /\ last.value = Some(MappedBy(sections[k], last.row_index).val)

----------------------------------------------------------------------------
(* A row() call for a row that does not exist leaves everything as it was *)

\* C28: a row() call with row_index >= row_count[table] seeks nowhere and
\* reads nothing: the cursor of the byte source, the source, the parsed image
\* and the schema are after the call what they were before it.
C28_NoSeekNoRead ==
    [][(/\ pc = "ready"
        /\ last'.table \in TableTypes
        /\ last'.row_index >= db.row_count[Table[last'.table].INDEX])
           => /\ pos' = pos
              /\ last'.from = pos
              /\ last'.log = <<>>
              /\ UNCHANGED <<file, log, pe, sections, cli, metadata_offset, version,
                             streams, metadata, db, tables_offset, pc, result>>]_vars

\* a call for a row beyond the last returned with the cursor where an earlier
\* decode had left it, away from the start of the row data
C28_Witness ==
    /\ Called
    /\ last.row_index >= db.row_count[Table[last.table].INDEX]
    /\ last.res = Ok /\ last.value = None
    /\ last.from > tables_offset
    /\ pos = last.from

----------------------------------------------------------------------------
(* Whether a 2-byte coded index can hold every reference *)

\* C29: whenever a coded index with N tag bits is read in 2 bytes, every
\* reference it may have to hold fits in 16 bits: r * 2^N + tag < 2^16 for
\* every candidate position tag and every row index r from 0 up to the largest
\* row count among the candidates.
C29_TwoBytesSuffice ==
    (pc = "decoded" /\ last.table \in DOMAIN Candidates /\ last.log[1].n = 2) =>
        \A tag \in 0..(Len(Candidates[last.table]) - 1) :
            \A r \in {0, 1, Largest(last.table)} :
                r * (2 ^ FieldTypes[last.table].bits) + tag < 65536

----------------------------------------------------------------------------
(* The u32 arithmetic of the table offsets and of the row seek *)

\* C30: for row counts of any u32 value, no u32 product or sum in Db::read's
\* table offsets or in row()'s seek position faults or wraps around: Db::read
\* does not end in an overflow panic, each product row_count[i] * row_size[i]
\* and each sum offsets[i] + product it computed stayed below 2^32, and a
\* row() call for a row that exists seeks to tables_offset + offsets[table] +
\* row_index * row_size[table].
C30_NoU32Overflow ==
    /\ (pc = "failed" /\ Reads("lstreams") # {}) => result # Panic("overflow")
    /\ pc = "ready" =>
           \A i \in 0..(Len(SizedTables) - 1) :
               /\ ~mul_u32(db.row_count[i], db.row_size[i]).ovf
               /\ ~add_u32(db.offsets[i],
                           mul_u32(db.row_count[i], db.row_size[i]).val).ovf
    /\ (Called /\ last.table \in TableTypes
          /\ last.row_index < db.row_count[Table[last.table].INDEX]) =>
           /\ last.res # Panic("overflow")
           /\ ~mul_u32(last.row_index, db.row_size[Table[last.table].INDEX]).ovf
           /\ last.log[1].at = tables_offset + db.offsets[Table[last.table].INDEX]
                                  + last.row_index * db.row_size[Table[last.table].INDEX]

====
